---- MODULE Spec2Model ----
(***************************************************************************)
(* A model of the hybrid travel assistant (hybrid_chat_test): the chat     *)
(* loop of cli.py, the text helpers of prompting.py and the graph          *)
(* expansion of graph.py / async_graph.py.                                 *)
(*                                                                         *)
(* Text is a sequence of one-character strings, so that substring tests    *)
(* and regular-expression substitutions are computed character by          *)
(* character, as Python computes them.  None is a one-element sequence     *)
(* that no text equals.                                                    *)
(***************************************************************************)
EXTENDS Integers, Sequences, FiniteSets, TLC

VARIABLES
    pc,               \* position in the function being run
    preferences,      \* cli.py:15
    query,            \* cli.py:18
    matches,          \* cli.py:23
    graph_facts,      \* cli.py:28/31
    prompt,           \* cli.py:34
    answer,           \* cli.py:36/46
    trip_length,      \* second argument of validate_response (cli.py:39)
    validation,       \* cli.py:39
    answer_expanded,  \* cli.py:49
    answer_clean,     \* cli.py:50
    requests,         \* completion requests of the current query, in order
    replies,          \* the contents those requests returned, in order
    printed,          \* what the current query wrote to stdout after the banner
    exc,              \* the exception that left the function, or NoExc
    raised_by,        \* the call that raised and what it raised, or NoRaise
    served,           \* number of questions read in this session
    node_ids,         \* the ids handed to the graph fetch
    recs,             \* the rows the graph query returned
    summary,          \* the result of search_summary
    parts,            \* the parts an answer under study was written from
    steps,            \* the calls interactive_chat made for the current query
    cache_dir,        \* embed.CACHE_DIR: file name -> the file it names
    inodes,           \* the blocks written to each file that was opened
    tasks,            \* the calls into embed.py that are running, with their locals
    permits,          \* embed._SEMAPHORE: the permits it holds
    provider,         \* the requests the embedding provider received
    _loop,            \* async_runner._loop: the event loop, or NoLoop
    _thread,          \* async_runner._thread: the runner thread, or NoThread
    _started,         \* async_runner._started
    loops,            \* the threads made for _start_loop, each with its event loop
    ENABLE_ASYNC_RUNNER  \* config.py:24

vars == <<pc, preferences, query, matches, graph_facts, prompt, answer,
          trip_length, validation, answer_expanded, answer_clean, requests,
          replies, printed, exc, raised_by, served, node_ids, recs, summary,
          parts, steps, cache_dir, inodes, tasks, permits, provider,
          _loop, _thread, _started, loops, ENABLE_ASYNC_RUNNER>>

\* the state of embed.py
embedVars == <<cache_dir, inodes, tasks, permits, provider>>

\* the state of async_runner.py and the setting it reads
runnerVars == <<_loop, _thread, _started, loops, ENABLE_ASYNC_RUNNER>>

\* async_runner.py:16: _loop = None
NoLoop == 0

\* async_runner.py:17: _thread = None
NoThread == 0

\* async_runner.py:16-18: the module after import
RunnerIdle ==
    /\ _loop = NoLoop
    /\ _thread = NoThread
    /\ _started = FALSE
    /\ loops = <<>>
    /\ ENABLE_ASYNC_RUNNER = TRUE

\* embed.py is not in use
EmbedIdle ==
    /\ cache_dir = <<>>
    /\ inodes = <<>>
    /\ tasks = <<>>
    /\ permits = 0
    /\ provider = <<>>

(***************************************************************************)
(* Characters and text                                                     *)
(***************************************************************************)
None == << "<None>" >>

Min(a, b) == IF a < b THEN a ELSE b

\* str.lower(), re.IGNORECASE: the upper-case letters the model's texts use
Lower(c) ==
    CASE c = "D" -> "d" [] c = "E" -> "e" [] c = "I" -> "i" [] c = "N" -> "n"
      [] c = "Q" -> "q" [] c = "S" -> "s" [] c = "L" -> "l" [] c = "R" -> "r"
      [] c = "V" -> "v" [] c = "C" -> "c" [] c = "B" -> "b" [] c = "H" -> "h"
      [] OTHER -> c

LowerStr(s) == [i \in 1..Len(s) |-> Lower(s[i])]

\* Python's \s and str.strip() whitespace
IsSpace(c) == c \in {" ", "\n", "\t"}

\* Python's \d
IsDigit(c) == c \in {"0", "1", "2", "3", "4", "5", "6", "7", "8", "9"}

\* the class [A-Za-z0-9_-] of expand_citations
IsIdChar(c) ==
    \/ IsDigit(c)
    \/ c \in {"_", "-"}
    \/ Lower(c) \in {"a", "b", "c", "d", "e", "f", "g", "h", "i", "j", "k", "l",
                     "m", "n", "o", "p", "q", "r", "s", "t", "u", "v", "w", "x",
                     "y", "z"}

\* s[i:] starts with lit
StartsAt(s, i, lit) ==
    /\ i >= 1
    /\ i + Len(lit) - 1 <= Len(s)
    /\ \A k \in 1..Len(lit) : s[i + k - 1] = lit[k]

\* the same, ignoring case (lit is lower case)
StartsAtCI(s, i, lit) ==
    /\ i >= 1
    /\ i + Len(lit) - 1 <= Len(s)
    /\ \A k \in 1..Len(lit) : Lower(s[i + k - 1]) = lit[k]

\* Python's `needle in hay`: scan for the first position where needle starts
RECURSIVE FindFrom(_, _, _)
FindFrom(hay, needle, i) ==
    IF i + Len(needle) - 1 > Len(hay) THEN 0
    ELSE IF StartsAt(hay, i, needle) THEN i
    ELSE FindFrom(hay, needle, i + 1)

Contains(hay, needle) == FindFrom(hay, needle, 1) # 0

\* first index >= i that holds no whitespace (Len(s)+1 if none)
RECURSIVE SkipSpace(_, _)
SkipSpace(s, i) ==
    IF i <= Len(s) /\ IsSpace(s[i]) THEN SkipSpace(s, i + 1) ELSE i

RECURSIVE SkipDigits(_, _)
SkipDigits(s, i) ==
    IF i <= Len(s) /\ IsDigit(s[i]) THEN SkipDigits(s, i + 1) ELSE i

RECURSIVE SkipIdChars(_, _)
SkipIdChars(s, i) ==
    IF i <= Len(s) /\ IsIdChar(s[i]) THEN SkipIdChars(s, i + 1) ELSE i

\* last index <= i that holds no whitespace (0 if none)
RECURSIVE BackSpace(_, _)
BackSpace(s, i) ==
    IF i >= 1 /\ IsSpace(s[i]) THEN BackSpace(s, i - 1) ELSE i

\* str.strip()
Strip(s) ==
    LET a == SkipSpace(s, 1)
        b == BackSpace(s, Len(s))
    IN  IF a > b THEN <<>> ELSE SubSeq(s, a, b)

\* str(n) for a natural number
RECURSIVE IntToStr(_)
IntToStr(n) ==
    LET d == <<"0", "1", "2", "3", "4", "5", "6", "7", "8", "9">>
    IN  IF n < 10 THEN <<d[n + 1]>> ELSE IntToStr(n \div 10) \o <<d[(n % 10) + 1]>>

RECURSIVE Join(_, _)
Join(sep, strs) ==
    IF strs = <<>> THEN <<>>
    ELSE IF Len(strs) = 1 THEN strs[1]
    ELSE strs[1] \o sep \o Join(sep, Tail(strs))

(***************************************************************************)
(* prompting.validate_response                                             *)
(***************************************************************************)
DayLabel(n) == <<"D", "a", "y", " ">> \o IntToStr(n)

Valid == <<"V", "a", "l", "i", "d">>

\* f"Response incomplete: Missing Day {trip_length}."
Incomplete(n) ==
    <<"R", "e", "s", "p", "o", "n", "s", "e", " ", "i", "n", "c", "o", "m", "p",
      "l", "e", "t", "e", ":", " ", "M", "i", "s", "s", "i", "n", "g", " ">>
    \o DayLabel(n) \o <<".">>

\* the check made without regard to case
validate_response_anycase(response, n) ==
    IF ~Contains(LowerStr(response), LowerStr(DayLabel(n))) THEN Incomplete(n)
    ELSE Valid

validate_response(response, n) ==
    IF ~Contains(response, DayLabel(n)) THEN Incomplete(n) ELSE Valid

(***************************************************************************)
(* prompting.sanitize_answer                                               *)
(***************************************************************************)
ScoreWord == <<"s", "c", "o", "r", "e", ":">>

NodeIdWord == <<"n", "o", "d", "e", "_", "i", "d">>

NoteWord == <<"N", "o", "t", "e", ":">>

ValidationWord == <<"V", "a", "l", "i", "d", "a", "t", "i", "o", "n", ":">>

\* first index >= i that holds character c (0 if none)
RECURSIVE IndexOf(_, _, _)
IndexOf(s, c, i) ==
    IF i > Len(s) THEN 0 ELSE IF s[i] = c THEN i ELSE IndexOf(s, c, i + 1)

\* r"score:\s*\d+\.\d+", IGNORECASE, tried at i: the index after the match, or 0
ScoreEnd(s, i) ==
    IF ~StartsAtCI(s, i, ScoreWord) THEN 0
    ELSE LET j == SkipSpace(s, i + Len(ScoreWord))
             k == SkipDigits(s, j)
         IN  IF k = j \/ k > Len(s) \/ s[k] # "." THEN 0
             ELSE LET m == SkipDigits(s, k + 1)
                  IN  IF m = k + 1 THEN 0 ELSE m

\* r"\[\s*node_id\s*:\s*[^\]]+\]" (open "[", close "]") and
\* r"\(\s*node_id\s*:\s*[^\)]+\)" (open "(", close ")"), IGNORECASE, tried at i
NodeIdEnd(open, close, s, i) ==
    IF i > Len(s) \/ s[i] # open THEN 0
    ELSE LET j == SkipSpace(s, i + 1)
         IN  IF ~StartsAtCI(s, j, NodeIdWord) THEN 0
             ELSE LET k == SkipSpace(s, j + Len(NodeIdWord))
                  IN  IF k > Len(s) \/ s[k] # ":" THEN 0
                      ELSE LET e == IndexOf(s, close, k + 1)
                           \* \s*[^\]]+ needs one character before the close
                           IN  IF e = 0 \/ e < k + 2 THEN 0 ELSE e + 1

\* r" {2,}" tried at i
SpacesEnd(s, i) ==
    IF i + 1 <= Len(s) /\ s[i] = " " /\ s[i + 1] = " "
    THEN LET RECURSIVE Run(_)
             Run(j) == IF j <= Len(s) /\ s[j] = " " THEN Run(j + 1) ELSE j
         IN  Run(i)
    ELSE 0

TokenEnd(kind, s, i) ==
    CASE kind = "score" -> ScoreEnd(s, i)
      [] kind = "bracket" -> NodeIdEnd("[", "]", s, i)
      [] kind = "paren" -> NodeIdEnd("(", ")", s, i)
      [] kind = "spaces" -> SpacesEnd(s, i)

\* re.sub(pattern, repl, s): leftmost matches, left to right, the scan going
\* on after each match, never into the replacement
RECURSIVE ReSub(_, _, _, _)
ReSub(kind, repl, s, i) ==
    IF i > Len(s) THEN <<>>
    ELSE LET e == TokenEnd(kind, s, i)
         IN  IF e = 0 THEN <<s[i]>> \o ReSub(kind, repl, s, i + 1)
             ELSE repl \o ReSub(kind, repl, s, e)

\* str.splitlines()
RECURSIVE SplitLines(_)
SplitLines(s) ==
    IF s = <<>> THEN <<>>
    ELSE LET p == IndexOf(s, "\n", 1)
         IN  IF p = 0 THEN <<s>>
             ELSE <<SubSeq(s, 1, p - 1)>> \o SplitLines(SubSeq(s, p + 1, Len(s)))

\* re.match(r"^\s*(Note:|Validation:)", ln)
IsNoteLine(ln) ==
    LET j == SkipSpace(ln, 1)
    IN  StartsAt(ln, j, NoteWord) \/ StartsAt(ln, j, ValidationWord)

KeepLines(lines) == SelectSeq(lines, LAMBDA ln : ~IsNoteLine(ln))

sanitize_answer(response) ==
    LET r1 == ReSub("score", <<>>, response, 1)
        r2 == ReSub("bracket", <<>>, r1, 1)
        r3 == ReSub("paren", <<>>, r2, 1)
        r4 == ReSub("spaces", <<" ">>, r3, 1)
        lines == KeepLines(SplitLines(r4))
    IN  Strip(Join(<<"\n">>, lines))

(***************************************************************************)
(* prompting.expand_citations                                              *)
(*                                                                         *)
(* A Match is [id, score, metadata: [name, type, tags, city]]; a GraphFact *)
(* is [source, rel, target_id, target_name, target_desc, labels].          *)
(***************************************************************************)
Entity == <<"E", "n", "t", "i", "t", "y">>

CommaSpace == <<",", " ">>

\* the keyword list of line 112, in its order
Keywords ==
    << <<"r", "o", "m", "a", "n", "t", "i", "c">>, <<"b", "e", "a", "c", "h">>,
       <<"c", "u", "l", "t", "u", "r", "e">>,
       <<"h", "e", "r", "i", "t", "a", "g", "e">>, <<"f", "o", "o", "d">>,
       <<"n", "a", "t", "u", "r", "e">>,
       <<"m", "o", "u", "n", "t", "a", "i", "n">> >>

\* f"{typ} ({', '.join(items)})" if items else typ
Tag(typ, items) ==
    IF items = <<>> THEN typ
    ELSE typ \o <<" ", "(">> \o Join(CommaSpace, items) \o <<")">>

\* meta_by_id (line 96): a later match with the same id replaces an earlier
\* one, and a match without an id is left out; the index of the entry for k
RECURSIVE MetaIndex(_, _)
MetaIndex(ms, k) ==
    IF ms = <<>> \/ k = <<>> \/ k = None THEN 0
    ELSE IF ms[Len(ms)].id = k THEN Len(ms)
    ELSE MetaIndex(SubSeq(ms, 1, Len(ms) - 1), k)

\* facts_by_id (line 97), keyed by target_id in the same way
RECURSIVE FactIndex(_, _)
FactIndex(fs, k) ==
    IF fs = <<>> \/ k = <<>> \/ k = None THEN 0
    ELSE IF fs[Len(fs)].target_id = k THEN Len(fs)
    ELSE FactIndex(SubSeq(fs, 1, Len(fs) - 1), k)

\* the end of (?:node[_ ]?id|nodeid|id) tried at t, or 0
PrefixWordEnd(raw, t) ==
    IF StartsAtCI(raw, t, <<"n", "o", "d", "e">>)
    THEN IF /\ t + 4 <= Len(raw)
            /\ raw[t + 4] \in {"_", " "}
            /\ StartsAtCI(raw, t + 5, <<"i", "d">>)
         THEN t + 7
         ELSE IF StartsAtCI(raw, t + 4, <<"i", "d">>) THEN t + 6 ELSE 0
    ELSE IF StartsAtCI(raw, t, <<"i", "d">>) THEN t + 2 ELSE 0

\* the start of the group <id> when the prefix
\* (?:(?:node[_ ]?id|nodeid|id)\s*:\s*) matches at t, otherwise 0
PrefixedIdStart(raw, t) ==
    LET p == PrefixWordEnd(raw, t)
    IN  IF p = 0 THEN 0
        ELSE LET k == SkipSpace(raw, p)
             IN  IF k > Len(raw) \/ raw[k] # ":" THEN 0
                 ELSE LET g == SkipSpace(raw, k + 1)
                      IN  IF g <= Len(raw) /\ IsIdChar(raw[g]) THEN g ELSE 0

\* first index >= t that holds an identifier character (0 if none)
RECURSIVE FirstIdChar(_, _)
FirstIdChar(raw, t) ==
    IF t > Len(raw) THEN 0
    ELSE IF IsIdChar(raw[t]) THEN t
    ELSE FirstIdChar(raw, t + 1)

\* the identifier taken without looking for a prefix
NodeIdOf_no_prefix(raw) ==
    LET t == FirstIdChar(raw, 1)
    IN  IF t = 0 THEN raw ELSE SubSeq(raw, t, SkipIdChars(raw, t) - 1)

\* lines 101-102: re.search of the optional prefix and the identifier; the
\* whole raw text when nothing matches
NodeIdOf(raw) ==
    LET t == FirstIdChar(raw, 1)
    IN  IF t = 0 THEN raw
        ELSE LET g == PrefixedIdStart(raw, t)
                 b == IF g = 0 THEN t ELSE g
             IN  SubSeq(raw, b, SkipIdChars(raw, b) - 1)

\* lines 104-107
MatchTag(meta) ==
    LET typ == IF meta.type = None \/ meta.type = <<>> THEN Entity ELSE meta.type
    IN  Tag(typ, meta.tags)

\* lines 109-113
FactTag(f) ==
    LET typ == IF f.labels = <<>> \/ f.labels[1] = <<>> THEN Entity ELSE f.labels[1]
        desc == LowerStr(f.target_desc)
    IN  Tag(typ, SelectSeq(Keywords, LAMBDA kw : Contains(desc, kw)))

\* the replacement with the facts looked up before the matches
repl_facts_first(group0, group1, ms, fs) ==
    LET nodeid == NodeIdOf(Strip(group1))
        mi == MetaIndex(ms, nodeid)
        fi == FactIndex(fs, nodeid)
    IN  IF fi # 0 THEN FactTag(fs[fi])
        ELSE IF mi # 0 THEN MatchTag(ms[mi].metadata)
        ELSE group0

\* lines 99-114: the replacement of one placeholder, group0 being the whole
\* placeholder and group1 the text between its brackets
repl(group0, group1, ms, fs) ==
    LET nodeid == NodeIdOf(Strip(group1))
        mi == MetaIndex(ms, nodeid)
        fi == FactIndex(fs, nodeid)
    IN  IF mi # 0 THEN MatchTag(ms[mi].metadata)
        ELSE IF fi # 0 THEN FactTag(fs[fi])
        ELSE group0

\* r"\[\s*([^\]]+)\s*\]" tried at i: the index of the closing bracket, or 0
PlaceholderClose(s, i) ==
    IF i > Len(s) \/ s[i] # "[" THEN 0
    ELSE LET e == IndexOf(s, "]", i + 1)
         IN  IF e = 0 \/ e < i + 2 THEN 0 ELSE e

\* group(1): the text after the leading whitespace, at least one character
PlaceholderGroup(s, i, e) == SubSeq(s, Min(SkipSpace(s, i + 1), e - 1), e - 1)

\* line 116, re.sub with repl: the pieces of the result in order, each the
\* source text it came from and the text put in its place
RECURSIVE ExpandPieces(_, _, _, _)
ExpandPieces(s, i, ms, fs) ==
    IF i > Len(s) THEN <<>>
    ELSE LET e == PlaceholderClose(s, i)
         IN  IF e = 0
             THEN <<[cite |-> FALSE, src |-> <<s[i]>>, out |-> <<s[i]>>]>>
                  \o ExpandPieces(s, i + 1, ms, fs)
             ELSE <<[cite |-> TRUE, src |-> SubSeq(s, i, e),
                     out |-> repl(SubSeq(s, i, e), PlaceholderGroup(s, i, e),
                                  ms, fs)]>>
                  \o ExpandPieces(s, e + 1, ms, fs)

RECURSIVE ConcatOut(_)
ConcatOut(pieces) ==
    IF pieces = <<>> THEN <<>> ELSE pieces[1].out \o ConcatOut(Tail(pieces))

\* lines 90-116; the callers pass lists, for which lines 91-94 change nothing
expand_citations(response, ms, fs) == ConcatOut(ExpandPieces(response, 1, ms, fs))

(***************************************************************************)
(* prompting.search_summary and prompting.build_prompt                     *)
(*                                                                         *)
(* A formatted text is modelled by the values written into it, in their    *)
(* order: a summary by the entries of its two sections, a turn's content   *)
(* by its parts.  Scores are in hundredths.                                *)
(***************************************************************************)
SummaryMatches == 5

SummaryFacts == 7

SummaryDescLen == 120

PromptMatches == 10

PromptFacts == 15

\* seq[:n]
Take(seq, n) == SubSeq(seq, 1, Min(n, Len(seq)))

\* sorted(..., key=score, reverse=True): a stable sort, so entries of equal
\* score keep their order; x goes after every entry whose score is >= its own
RECURSIVE InsertByScore(_, _)
InsertByScore(sorted, x) ==
    IF sorted = <<>> THEN <<x>>
    ELSE IF sorted[1].score >= x.score
         THEN <<sorted[1]>> \o InsertByScore(Tail(sorted), x)
         ELSE <<x>> \o sorted

RECURSIVE SortedByScore(_)
SortedByScore(ms) ==
    IF ms = <<>> THEN <<>>
    ELSE InsertByScore(SortedByScore(SubSeq(ms, 1, Len(ms) - 1)), ms[Len(ms)])

\* line 20
VecSnippet(m) ==
    [name |-> m.metadata.name, type |-> m.metadata.type,
     tags |-> Join(CommaSpace, m.metadata.tags), score |-> m.score]

\* line 22
GraphSnippet(f) ==
    [target_name |-> f.target_name,
     target_desc |-> Take(f.target_desc, SummaryDescLen) \o <<".", ".", ".">>]

\* the summary with the matches taken in the order given
search_summary_unsorted(pinecone_matches, facts) ==
    LET top == Take(pinecone_matches, SummaryMatches)
        first == Take(facts, SummaryFacts)
    IN  [vec |-> [i \in 1..Len(top) |-> VecSnippet(top[i])],
         graph |-> [i \in 1..Len(first) |-> GraphSnippet(first[i])]]

search_summary(pinecone_matches, facts) ==
    LET top == Take(SortedByScore(pinecone_matches), SummaryMatches)
        first == Take(facts, SummaryFacts)
    IN  [vec |-> [i \in 1..Len(top) |-> VecSnippet(top[i])],
         graph |-> [i \in 1..Len(first) |-> GraphSnippet(first[i])]]

\* the trip length that is 3 whatever the query
TripLength_always3(user_query) == 3

\* '4' in user_query (lines 28 and cli.py:39)
TripLength(user_query) == IF Contains(user_query, <<"4">>) THEN 4 ELSE 3

TemplateNames == {"concise", "chain_of_thought"}

\* Python's None where a dict is expected
NoPrefs == [None |-> "None"]

\* line 27: preferences or {}
PrefsOrEmpty(prefs) == IF prefs = NoPrefs THEN <<>> ELSE prefs

\* the template looked up by the name given, whatever it is
TemplateOf_no_default(prefs) ==
    IF "template" \in DOMAIN prefs THEN prefs["template"] ELSE "concise"

\* lines 41-42: a dict is a function of its keys; a missing or empty name and
\* a name that is no template select "concise"
TemplateOf(prefs) ==
    IF "template" \in DOMAIN prefs /\ prefs["template"] \in TemplateNames
    THEN prefs["template"]
    ELSE "concise"

\* line 49
VecContext(m) ==
    [id |-> m.id, name |-> m.metadata.name, type |-> m.metadata.type,
     score |-> m.score]

\* line 51
GraphContext(f) ==
    [source |-> f.source, rel |-> f.rel, target_id |-> f.target_id,
     target_name |-> f.target_name, target_desc |-> f.target_desc]

build_prompt(user_query, pinecone_matches, facts, prefs0) ==
    LET prefs == PrefsOrEmpty(prefs0)
        template == TemplateOf(prefs)
        ms == Take(pinecone_matches, PromptMatches)
        fs == Take(facts, PromptFacts)
    IN  << [role |-> "system",
            content |-> [system |-> template, suffix |-> template,
                         days |-> TripLength(user_query)]],
           [role |-> "user",
            content |-> [query |-> user_query, preferences |-> prefs,
                         summary |-> search_summary(pinecone_matches, facts),
                         matches |-> [i \in 1..Len(ms) |-> VecContext(ms[i])],
                         facts |-> [i \in 1..Len(fs) |-> GraphContext(fs[i])]]] >>

(***************************************************************************)
(* graph.fetch_graph_context and async_graph.fetch_graph_context_async     *)
(*                                                                         *)
(* A result row is [rel, labels, id, name, description, rel2, labels2,     *)
(* id2, name2, description2]; rel2 is None when the OPTIONAL MATCH found   *)
(* nothing, a description is None when the node has none.                  *)
(***************************************************************************)
QueryLimit == 100

FactLimit == 50

DescLimit == 400

\* (r["description"] or "")[:400]
DescOf(description) ==
    IF description = None THEN <<>> ELSE Take(description, DescLimit)

\* graph.py:35-42
OneHop(r) ==
    [source |-> None, rel |-> r.rel, target_id |-> r.id, target_name |-> r.name,
     target_desc |-> DescOf(r.description), labels |-> r.labels]

\* graph.py:45-52
TwoHop(r) ==
    [source |-> r.id, rel |-> r.rel2, target_id |-> r.id2,
     target_name |-> r.name2, target_desc |-> DescOf(r.description2),
     labels |-> r.labels2]

\* a row's facts with the second hop put first
RowFacts_two_first(r) ==
    IF r.rel2 # None /\ r.rel2 # <<>> THEN <<TwoHop(r), OneHop(r)>>
    ELSE <<OneHop(r)>>

\* graph.py:33-52: what one row appends
RowFacts(r) ==
    IF r.rel2 # None /\ r.rel2 # <<>> THEN <<OneHop(r), TwoHop(r)>>
    ELSE <<OneHop(r)>>

\* the loop of graph.py:33-52 from row i on
RECURSIVE AllFacts(_, _)
AllFacts(rows, i) ==
    IF i > Len(rows) THEN <<>> ELSE RowFacts(rows[i]) \o AllFacts(rows, i + 1)

fetch_graph_context(rows) == Take(AllFacts(rows, 1), FactLimit)

\* the same after the early return for an empty id list
fetch_graph_context_async(ids, rows) ==
    IF ids = <<>> THEN <<>> ELSE Take(AllFacts(rows, 1), FactLimit)

(***************************************************************************)
(* The texts, matches and rows the runs draw their inputs from             *)
(***************************************************************************)
Id_hue == <<"h", "u", "e">>

Id_sapa == <<"s", "a", "p", "a">>

Id_hoian == <<"h", "o", "i", "a", "n">>

Id_id == <<"i", "d">>

T_City == <<"C", "i", "t", "y">>

T_Town == <<"T", "o", "w", "n">>

T_Place == <<"P", "l", "a", "c", "e">>

T_food == <<"f", "o", "o", "d">>

T_culture == <<"c", "u", "l", "t", "u", "r", "e">>

T_near == <<"N", "E", "A", "R">>

D_beach == <<"R", "o", "m", "a", "n", "t", "i", "c", " ", "b", "e", "a", "c", "h">>

D_hills == <<"h", "i", "l", "l", "s">>

Day1 == <<"D", "a", "y", " ", "1">>

Day3 == <<"D", "a", "y", " ", "3">>

Day4 == <<"D", "a", "y", " ", "4">>

ScoreLeak == <<" ", "s", "c", "o", "r", "e", ":", " ", "0", ".", "9">>

NoteLine == <<"\n", "N", "o", "t", "e", ":", " ", "x">>

Cite(body) == <<"[">> \o body \o <<"]">>

M_hue ==
    [id |-> Id_hue, score |-> 91,
     metadata |-> [name |-> Id_hue, type |-> T_City,
                   tags |-> <<T_food, T_culture>>, city |-> Id_hue]]

M_sapa ==
    [id |-> Id_sapa, score |-> 84,
     metadata |-> [name |-> Id_sapa, type |-> T_Town, tags |-> <<>>,
                   city |-> Id_sapa]]

\* a neighbour with a second hop, and one without
Row_pair ==
    [rel |-> T_near, labels |-> <<T_Place>>, id |-> Id_hoian, name |-> Id_hoian,
     description |-> D_beach, rel2 |-> T_near, labels2 |-> <<T_Town>>,
     id2 |-> Id_sapa, name2 |-> Id_sapa, description2 |-> None]

Row_single ==
    [rel |-> T_near, labels |-> <<T_Town>>, id |-> Id_sapa, name |-> Id_sapa,
     description |-> D_hills, rel2 |-> None, labels2 |-> None, id2 |-> None,
     name2 |-> None, description2 |-> None]

(***************************************************************************)
(* cli.interactive_chat                                                    *)
(***************************************************************************)
MaxQueries == 2

FirstMaxTokens == 1100

RetryMaxTokens == 1200

NoRaise == [call |-> "none", error |-> "none"]

Errors == {"ConnectionError", "AuthError"}

\* what the user may type at the two preference prompts
BudgetInputs == {<<>>, <<" ", "L", "o", "w">>}

InterestInputs == {<<>>}

Medium == <<"m", "e", "d", "i", "u", "m">>

Romantic == <<"r", "o", "m", "a", "n", "t", "i", "c">>

\* what the user may type as a question
QueryInputs ==
    { <<"t", "r", "i", "p">>, <<" ", "4", " ", "d", "a", "y">>,
      <<"E", "x", "i", "t">>, <<" ", " ">> }

ExitWords == {<<"e", "x", "i", "t">>, <<"q", "u", "i", "t">>}

MatchLists == {<<>>, <<M_sapa, M_hue>>}

\* the rows the graph holds for the ids asked for
RowLists(ids) == IF ids = <<>> THEN {<<>>} ELSE {<<Row_pair, Row_single>>}

\* the contents a completion may come back with; None for a reply without text
Completions ==
    { Day3, Day1 \o NoteLine, Day4 \o <<" ">> \o Cite(Id_hue) \o ScoreLeak, None }

\* input(...).strip().lower() or default
Typed(raw, default) ==
    LET t == LowerStr(Strip(raw)) IN IF t = <<>> THEN default ELSE t

\* cli.py:42-44
followup == << [role |-> "user", content |-> [followup |-> "complete the missing day(s)"]] >>

\* the request client.chat.completions.create receives (prompting.py:66-71)
Request(prompt_messages, max_tokens) ==
    [model |-> "gpt-4o-mini", messages |-> prompt_messages,
     max_tokens |-> max_tokens]

\* cli.py:13-15
ReadPreferences ==
    /\ UNCHANGED <<steps, embedVars, runnerVars>>
    /\ pc = "prefs"
    /\ \E b \in BudgetInputs, i \in InterestInputs :
           preferences' = [budget |-> Typed(b, Medium), interests |-> Typed(i, Romantic)]
    /\ pc' = "input"
    /\ UNCHANGED <<query, matches, graph_facts, prompt, answer, trip_length,
                   validation, answer_expanded, answer_clean, requests, replies, printed,
                   exc, raised_by, served, node_ids, recs, summary, parts>>

\* cli.py:18-20: the question is read; an empty one, exit or quit leaves the loop
ReadQuery ==
    /\ steps' = <<>>
    /\ UNCHANGED <<embedVars, runnerVars>>
    /\ pc = "input"
    /\ \E raw \in QueryInputs :
          LET q == Strip(raw)
              leave == q = <<>> \/ LowerStr(q) \in ExitWords
          IN  /\ leave \/ served < MaxQueries
              /\ query' = q
              /\ pc' = IF leave THEN "exited" ELSE "search"
              /\ served' = IF leave THEN served ELSE served + 1
    /\ requests' = <<>>
    /\ replies' = <<>>
    /\ printed' = <<>>
    /\ raised_by' = NoRaise
    /\ UNCHANGED <<preferences, matches, graph_facts, prompt, answer,
                   trip_length, validation, answer_expanded, answer_clean, exc,
                   node_ids, recs, summary, parts>>

\* cli.py:23-24: the vector search returns matches, or raises
VectorSearch ==
    /\ steps' = Append(steps, "query_pinecone")
    /\ UNCHANGED <<embedVars, runnerVars>>
    /\ pc = "search"
    /\ \/ \E ms \in MatchLists :
            /\ matches' = ms
            /\ node_ids' = [i \in 1..Len(ms) |-> ms[i].id]
            /\ pc' = "graph"
            /\ UNCHANGED <<exc, raised_by>>
       \/ \E e \in Errors :
            /\ raised_by' = [call |-> "query_pinecone", error |-> e]
            /\ exc' = e
            /\ pc' = "raised"
            /\ UNCHANGED <<matches, node_ids>>
    /\ UNCHANGED <<preferences, query, graph_facts, prompt, answer, trip_length,
                   validation, answer_expanded, answer_clean, requests, replies, printed,
                   served, recs, summary, parts>>

\* the graph fetch without the try/except around it
FetchGraphUnguarded ==
    /\ steps' = Append(steps, "fetch_graph_context")
    /\ UNCHANGED <<embedVars, runnerVars>>
    /\ pc = "graph"
    /\ \/ \E rows \in RowLists(node_ids) :
            /\ recs' = rows
            /\ graph_facts' = fetch_graph_context(rows)
            /\ pc' = "build"
            /\ UNCHANGED <<exc, raised_by>>
       \/ \E e \in Errors :
            /\ raised_by' = [call |-> "fetch_graph_context", error |-> e]
            /\ exc' = e
            /\ pc' = "raised"
            /\ UNCHANGED <<recs, graph_facts>>
    /\ UNCHANGED <<preferences, query, matches, prompt, answer, trip_length,
                   validation, answer_expanded, answer_clean, requests, replies,
                   printed, served, node_ids, summary, parts>>

\* cli.py:27-31: the graph fetch returns facts, or raises and is replaced by
\* a warning and no facts
FetchGraph ==
    /\ steps' = Append(steps, "fetch_graph_context")
    /\ UNCHANGED <<embedVars, runnerVars>>
    /\ pc = "graph"
    /\ \/ \E rows \in RowLists(node_ids) :
            /\ recs' = rows
            /\ graph_facts' = fetch_graph_context(rows)
            /\ UNCHANGED <<printed, raised_by>>
       \/ \E e \in Errors :
            /\ raised_by' = [call |-> "fetch_graph_context", error |-> e]
            /\ printed' = Append(printed, [kind |-> "warning", text |-> <<>>, error |-> e])
            /\ graph_facts' = <<>>
            /\ UNCHANGED recs
    /\ pc' = "build"
    /\ exc' = exc
    /\ UNCHANGED <<preferences, query, matches, prompt, answer, trip_length,
                   validation, answer_expanded, answer_clean, requests, replies,
                   served, node_ids, summary, parts>>

\* the prompt built on top of the turns of the query before
BuildPrompt_with_history ==
    /\ steps' = Append(steps, "build_prompt")
    /\ UNCHANGED <<embedVars, runnerVars>>
    /\ pc = "build"
    /\ prompt' = (IF served > 1
                  THEN prompt \o << [role |-> "assistant", content |-> answer] >>
                  ELSE <<>>)
                 \o build_prompt(query, matches, graph_facts, preferences)
    /\ pc' = "call1"
    /\ UNCHANGED <<preferences, query, matches, graph_facts, answer, trip_length,
                   validation, answer_expanded, answer_clean, requests, replies, printed,
                   exc, raised_by, served, node_ids, recs, summary, parts>>

\* cli.py:34
BuildPrompt ==
    /\ steps' = Append(steps, "build_prompt")
    /\ UNCHANGED <<embedVars, runnerVars>>
    /\ pc = "build"
    /\ prompt' = build_prompt(query, matches, graph_facts, preferences)
    /\ pc' = "call1"
    /\ UNCHANGED <<preferences, query, matches, graph_facts, answer, trip_length,
                   validation, answer_expanded, answer_clean, requests, replies, printed,
                   exc, raised_by, served, node_ids, recs, summary, parts>>

\* call_chat with a failure of the endpoint swallowed: the caller goes on
\* with an empty answer
call_chat_swallow(prompt_messages, max_tokens, next) ==
    /\ requests' = Append(requests, Request(prompt_messages, max_tokens))
    /\ \/ \E content \in Completions :
            /\ answer' = content
            /\ replies' = Append(replies, content)
            /\ pc' = next
            /\ UNCHANGED <<exc, raised_by>>
       \/ \E e \in Errors :
            /\ raised_by' = [call |-> "call_chat", error |-> e]
            /\ answer' = <<>>
            /\ pc' = next
            /\ UNCHANGED <<exc, replies>>

\* prompting.call_chat: the request is sent; the reply's content is returned,
\* or the call raises
call_chat(prompt_messages, max_tokens, next) ==
    /\ requests' = Append(requests, Request(prompt_messages, max_tokens))
    /\ \/ \E content \in Completions :
            /\ answer' = content
            /\ replies' = Append(replies, content)
            /\ pc' = next
            /\ UNCHANGED <<exc, raised_by>>
       \/ \E e \in Errors :
            /\ raised_by' = [call |-> "call_chat", error |-> e]
            /\ exc' = e
            /\ pc' = "raised"
            /\ UNCHANGED <<answer, replies>>

\* cli.py:36: first attempt
FirstCall ==
    /\ steps' = Append(steps, "call_chat")
    /\ UNCHANGED <<embedVars, runnerVars>>
    /\ pc = "call1"
    /\ call_chat(prompt, FirstMaxTokens, "validate")
    /\ UNCHANGED <<preferences, query, matches, graph_facts, prompt, trip_length,
                   validation, answer_expanded, answer_clean, printed, served,
                   node_ids, recs, summary, parts>>

\* cli.py:39-40: a reply without text makes the substring test raise
Validate ==
    /\ steps' = Append(steps, "validate_response")
    /\ UNCHANGED <<embedVars, runnerVars>>
    /\ pc = "validate"
    /\ trip_length' = TripLength(query)
    /\ IF answer = None
       THEN /\ raised_by' = [call |-> "validate_response", error |-> "TypeError"]
            /\ exc' = "TypeError"
            /\ pc' = "raised"
            /\ UNCHANGED validation
       ELSE /\ validation' = validate_response(answer, trip_length')
            /\ pc' = IF validation' # Valid THEN "call2" ELSE "expand"
            /\ UNCHANGED <<exc, raised_by>>
    /\ UNCHANGED <<preferences, query, matches, graph_facts, prompt, answer,
                   answer_expanded, answer_clean, requests, replies, printed, served,
                   node_ids, recs, summary, parts>>

\* the retry followed by another validation, so that it repeats
RetryCallLoop ==
    /\ steps' = Append(steps, "call_chat")
    /\ UNCHANGED <<embedVars, runnerVars>>
    /\ pc = "call2"
    /\ Len(requests) < 4
    /\ call_chat(prompt \o followup, RetryMaxTokens, "validate")
    /\ UNCHANGED <<preferences, query, matches, graph_facts, prompt, trip_length,
                   validation, answer_expanded, answer_clean, printed, served,
                   node_ids, recs, summary, parts>>

\* the retry sent with the follow-up turn alone
RetryCallBare ==
    /\ steps' = Append(steps, "call_chat")
    /\ UNCHANGED <<embedVars, runnerVars>>
    /\ pc = "call2"
    /\ call_chat(followup, RetryMaxTokens, "expand")
    /\ UNCHANGED <<preferences, query, matches, graph_facts, prompt, trip_length,
                   validation, answer_expanded, answer_clean, printed, served,
                   node_ids, recs, summary, parts>>

\* the retry with the follow-up turn appended to the prompt list itself
RetryCall_in_place ==
    /\ steps' = Append(steps, "call_chat")
    /\ UNCHANGED <<embedVars, runnerVars>>
    /\ pc = "call2"
    /\ prompt' = prompt \o followup
    /\ call_chat(prompt', RetryMaxTokens, "expand")
    /\ UNCHANGED <<preferences, query, matches, graph_facts, trip_length,
                   validation, answer_expanded, answer_clean, printed, served,
                   node_ids, recs, summary, parts>>

\* cli.py:42-46: the retry
RetryCall ==
    /\ steps' = Append(steps, "call_chat")
    /\ UNCHANGED <<embedVars, runnerVars>>
    /\ pc = "call2"
    /\ call_chat(prompt \o followup, RetryMaxTokens, "expand")
    /\ UNCHANGED <<preferences, query, matches, graph_facts, prompt, trip_length,
                   validation, answer_expanded, answer_clean, printed, served,
                   node_ids, recs, summary, parts>>

\* the expansion applied to the first answer received
Expand_first_reply ==
    /\ steps' = Append(steps, "expand_citations")
    /\ UNCHANGED <<embedVars, runnerVars>>
    /\ pc = "expand"
    /\ IF replies[1] = None
       THEN /\ raised_by' = [call |-> "expand_citations", error |-> "TypeError"]
            /\ exc' = "TypeError"
            /\ pc' = "raised"
            /\ UNCHANGED answer_expanded
       ELSE /\ answer_expanded' = expand_citations(replies[1], matches, graph_facts)
            /\ pc' = "sanitize"
            /\ UNCHANGED <<exc, raised_by>>
    /\ UNCHANGED <<preferences, query, matches, graph_facts, prompt, answer,
                   trip_length, validation, answer_clean, requests, replies, printed,
                   served, node_ids, recs, summary, parts>>

\* cli.py:49: re.sub raises on a reply without text
Expand ==
    /\ steps' = Append(steps, "expand_citations")
    /\ UNCHANGED <<embedVars, runnerVars>>
    /\ pc = "expand"
    /\ IF answer = None
       THEN /\ raised_by' = [call |-> "expand_citations", error |-> "TypeError"]
            /\ exc' = "TypeError"
            /\ pc' = "raised"
            /\ UNCHANGED answer_expanded
       ELSE /\ answer_expanded' = expand_citations(answer, matches, graph_facts)
            /\ pc' = "sanitize"
            /\ UNCHANGED <<exc, raised_by>>
    /\ UNCHANGED <<preferences, query, matches, graph_facts, prompt, answer,
                   trip_length, validation, answer_clean, requests, replies, printed,
                   served, node_ids, recs, summary, parts>>

\* cli.py:50
Sanitize ==
    /\ steps' = Append(steps, "sanitize_answer")
    /\ UNCHANGED <<embedVars, runnerVars>>
    /\ pc = "sanitize"
    /\ answer_clean' = sanitize_answer(answer_expanded)
    /\ pc' = "print"
    /\ UNCHANGED <<preferences, query, matches, graph_facts, prompt, answer,
                   trip_length, validation, answer_expanded, requests, replies, printed,
                   exc, raised_by, served, node_ids, recs, summary, parts>>

\* cli.py:51-53, and back to the top of the loop
PrintAnswer ==
    /\ steps' = Append(steps, "print")
    /\ UNCHANGED <<embedVars, runnerVars>>
    /\ pc = "print"
    /\ printed' = Append(printed, [kind |-> "answer", text |-> answer_clean, error |-> "none"])
    /\ pc' = "input"
    /\ UNCHANGED <<preferences, query, matches, graph_facts, prompt, answer,
                   trip_length, validation, answer_expanded, answer_clean,
                   requests, replies, exc, raised_by, served, node_ids, recs, summary,
                   parts>>

Unbound == <<>>

Init ==
    /\ EmbedIdle
    /\ RunnerIdle
    /\ steps = <<>>
    /\ pc = "prefs"
    /\ preferences = Unbound
    /\ query = Unbound
    /\ matches = Unbound
    /\ graph_facts = Unbound
    /\ prompt = Unbound
    /\ answer = Unbound
    /\ trip_length = 0
    /\ validation = Unbound
    /\ answer_expanded = Unbound
    /\ answer_clean = Unbound
    /\ requests = <<>>
    /\ replies = <<>>
    /\ printed = <<>>
    /\ exc = "none"
    /\ raised_by = NoRaise
    /\ served = 0
    /\ node_ids = Unbound
    /\ recs = Unbound
    /\ summary = Unbound
    /\ parts = Unbound

Next ==
    \/ ReadPreferences
    \/ ReadQuery
    \/ VectorSearch
    \/ FetchGraph
    \/ BuildPrompt
    \/ FirstCall
    \/ Validate
    \/ RetryCall
    \/ Expand
    \/ Sanitize
    \/ PrintAnswer

Spec == Init /\ [][Next]_vars

(***************************************************************************)
(* Claims about the chat loop (Spec)                                       *)
(***************************************************************************)
\* needle occurs in hay at some position
HasSubstring(hay, needle) ==
    \E i \in 1..(Len(hay) - Len(needle) + 1) :
        SubSeq(hay, i, i + Len(needle) - 1) = needle

\* the trip length of the current query: 4 when it holds a "4", else 3
QueryDays == IF \E i \in 1..Len(query) : query[i] = "4" THEN 4 ELSE 3

HasDay(text) == text # None /\ HasSubstring(text, DayLabel(QueryDays))

AnswerPrinted ==
    printed # <<>> /\ printed[Len(printed)].kind = "answer"

\* C1: the completion endpoint is called exactly once for a query whose first
\* answer contains "Day N" and exactly twice for one whose first answer does
\* not, and never a third time, whatever the retry answer is.
C1_CompletionCalls ==
    /\ Len(requests) <= 2
    /\ (replies # <<>> /\ replies[1] # None) =>
          IF HasDay(replies[1]) THEN Len(requests) = 1
          ELSE (pc \in {"expand", "sanitize", "print", "input"}
                   => Len(requests) = 2)

\* a query answered after a retry whose answer still lacks "Day N"
C1_Witness ==
    /\ pc = "print"
    /\ Len(replies) = 2
    /\ replies[2] # None
    /\ ~HasDay(replies[1])
    /\ ~HasDay(replies[2])

\* C2: the retry request is the original prompt turns, unchanged and in order,
\* followed by exactly one user turn asking to complete the missing days, and
\* its max_tokens (1200) is larger than the first call's (1100).
C2_RetryRequest ==
    Len(requests) >= 2 =>
        LET first == requests[1]
            retry == requests[2]
            n == Len(first.messages)
        IN  /\ first.messages = prompt
            /\ Len(retry.messages) = n + 1
            /\ SubSeq(retry.messages, 1, n) = first.messages
            /\ retry.messages[n + 1].role = "user"
            /\ retry.messages[n + 1] = followup[1]
            /\ first.max_tokens = 1100
            /\ retry.max_tokens = 1200
            /\ retry.max_tokens > first.max_tokens

\* the retry of a 4-day query whose first answer lacks "Day 4"
C2_Witness ==
    /\ Len(requests) = 2
    /\ QueryDays = 4
    /\ replies[1] # None
    /\ ~HasSubstring(replies[1], Day4)

GraphFailed == raised_by.call = "fetch_graph_context"

\* C9: when the graph fetch raises, nothing leaves the loop: the facts are the
\* empty list, the prompt is built from the matches alone, the completion call
\* is made with it, and the query ends with an answer printed and the loop
\* back at its question prompt.
C9_GraphFailureDegrades ==
    GraphFailed =>
        /\ pc \in {"build", "call1", "validate", "call2", "expand", "sanitize",
                   "print", "input"}
        /\ exc = "none"
        /\ graph_facts = <<>>
        /\ printed[1].kind = "warning"
        /\ pc # "build" =>
              /\ prompt = build_prompt(query, matches, <<>>, preferences)
              /\ prompt[2].content.facts = <<>>
              /\ prompt[2].content.summary.graph = <<>>
              /\ Len(prompt[2].content.matches) = Len(matches)
        /\ pc \notin {"build", "call1"} =>
              /\ requests # <<>>
              /\ requests[1].messages = prompt
        /\ pc = "input" => AnswerPrinted

\* a query answered from the matches alone after the graph fetch raised
C9_Witness ==
    /\ GraphFailed
    /\ pc = "input"
    /\ AnswerPrinted
    /\ matches # <<>>
    /\ served < MaxQueries

\* C10: when the vector search or a completion call raises, the loop is left
\* with that exception: no completion call follows, no answer is printed; and
\* an answer that contains "Day N" is never requested again.
C10_NoRetryOnFailure ==
    /\ raised_by.call \in {"query_pinecone", "call_chat"} =>
          /\ pc = "raised"
          /\ exc = raised_by.error
          /\ ~AnswerPrinted
          /\ raised_by.call = "query_pinecone" => requests = <<>>
          /\ raised_by.call = "call_chat" => Len(requests) = Len(replies) + 1
    /\ (replies # <<>> /\ HasDay(replies[1])) => Len(requests) = 1

\* a completion call that raised, and a complete first answer with a leak
C10_Witness ==
    \/ /\ pc = "raised"
       /\ raised_by.call = "call_chat"
       /\ Len(requests) = 2
    \/ /\ pc = "print"
       /\ HasDay(replies[1])
       /\ HasSubstring(replies[1], ScoreLeak)

\* s is an initial part of t
IsPrefix(s, t) == Len(s) <= Len(t) /\ SubSeq(t, 1, Len(s)) = s

StepsOnce ==
    <<"query_pinecone", "fetch_graph_context", "build_prompt", "call_chat",
      "validate_response", "expand_citations", "sanitize_answer", "print">>

StepsWithRetry ==
    <<"query_pinecone", "fetch_graph_context", "build_prompt", "call_chat",
      "validate_response", "call_chat", "expand_citations", "sanitize_answer",
      "print">>

\* C11: the steps of a query occur in the order vector search, graph
\* expansion, prompt build, completion, validation, (one retry completion),
\* citation expansion, sanitization, print, each at most once but the
\* completion; the expansion is applied to the last answer received, before
\* the sanitization, and the text printed is the sanitizer's output.
C11_StepOrder ==
    /\ IsPrefix(steps, StepsOnce) \/ IsPrefix(steps, StepsWithRetry)
    /\ (steps # <<>> /\ steps[Len(steps)] \in {"expand_citations", "sanitize_answer", "print"}
           /\ pc # "raised") =>
          answer_expanded = expand_citations(replies[Len(replies)], matches, graph_facts)
    /\ (steps # <<>> /\ steps[Len(steps)] \in {"sanitize_answer", "print"}) =>
          answer_clean = sanitize_answer(answer_expanded)
    /\ (steps # <<>> /\ steps[Len(steps)] = "print") =>
          /\ AnswerPrinted
          /\ printed[Len(printed)].text = answer_clean
    /\ AnswerPrinted => steps \in {StepsOnce, StepsWithRetry}

\* an answer printed after a retry whose answer differs from the first one
C11_Witness ==
    /\ steps = StepsWithRetry
    /\ replies[2] # replies[1]
    /\ expand_citations(replies[2], matches, graph_facts) # replies[2]
    /\ answer_clean # answer_expanded

\* C13: the prompt sent for a query is determined by that query's text, its
\* matches and graph facts and the session preferences alone: it is the two
\* turns build_prompt makes of them whether or not a query was asked before,
\* and no request carries a turn, an answer or a follow-up of an earlier query.
C13_StatelessPerCall ==
    (Len(steps) >= 3 /\ steps[3] = "build_prompt") =>
        /\ prompt = build_prompt(query, matches, graph_facts, preferences)
        /\ Len(prompt) = 2
        /\ prompt[2].content.query = query
        /\ Len(requests) >= 1 => requests[1].messages = prompt
        /\ Len(requests) >= 2 => requests[2].messages = prompt \o followup
        /\ \A i \in 1..Len(requests) :
              \A j \in 1..Len(requests[i].messages) :
                  requests[i].messages[j].role \in {"system", "user"}

\* the second query of a session, sent again after an incomplete answer
C13_Witness ==
    /\ served = 2
    /\ Len(requests) = 2
    /\ answer_clean # Unbound

\* C14: the preferences read at the start of the session never change, no
\* step among build_prompt, the retry, expand_citations and sanitize_answer
\* changes the query, the matches, the graph facts or the preferences, and
\* the retry leaves the prompt list as it was.
C14_InputsUnchanged ==
    [][ /\ pc # "prefs" => preferences' = preferences
        /\ pc \in {"build", "call2", "expand", "sanitize"} =>
              /\ query' = query
              /\ matches' = matches
              /\ graph_facts' = graph_facts
        /\ pc = "call2" => prompt' = prompt ]_vars

\* the second query of a session answered after a retry, the budget typed
C14_Witness ==
    /\ served = 2
    /\ pc = "input"
    /\ steps = StepsWithRetry
    /\ preferences.budget # Medium
    /\ matches # <<>>

\* C18: the trip length given to validate_response is the one build_prompt
\* wrote into the system turn: both are 4 exactly when the query holds the
\* character "4" and 3 otherwise.
C18_TripLengthAgrees ==
    (Len(steps) >= 5 /\ steps[5] = "validate_response") =>
        /\ trip_length = prompt[1].content.days
        /\ trip_length = QueryDays
        /\ (validation # Valid /\ pc # "raised") =>
              validation = Incomplete(prompt[1].content.days)

\* a four-day query whose answer stops at day 3
C18_Witness ==
    /\ Len(steps) >= 5
    /\ trip_length = 4
    /\ validation # Valid
    /\ HasSubstring(replies[1], Day3)

(***************************************************************************)
(* The text functions applied to inputs of their own                       *)
(*                                                                         *)
(* A text under study is the concatenation of up to a bounded number of    *)
(* fragments; the function is applied to its characters.                   *)
(***************************************************************************)
\* the variables of the chat loop that a run of one function leaves alone
CliIdle ==
    /\ steps = <<>>
    /\ preferences = Unbound
    /\ query = Unbound
    /\ prompt = Unbound
    /\ requests = <<>>
    /\ replies = <<>>
    /\ printed = <<>>
    /\ exc = "none"
    /\ raised_by = NoRaise
    /\ served = 0

cliVars == <<preferences, query, prompt, requests, replies, printed, exc,
             raised_by, served, steps>>

\* all sequences of 1..n elements of S
SeqsUpTo(S, n) == UNION {[1..k -> S] : k \in 1..n}

RECURSIVE Concat(_)
Concat(strs) == IF strs = <<>> THEN <<>> ELSE strs[1] \o Concat(Tail(strs))

(***************************************************************************)
(* validate_response on its own (SpecValidate)                             *)
(***************************************************************************)
MaxWords == 3

ResponseWords ==
    { <<"D", "a", "y">>, <<"D", "a", "y", " ">>, <<"d", "a", "y", " ">>,
      <<"D">>, <<" ">>, <<"\n">>, <<"1">>, <<"3">>, <<"4">>, <<"0">> }

Responses == {Concat(w) : w \in SeqsUpTo(ResponseWords, MaxWords)} \cup {<<>>}

TripLengths == {1, 3, 4, 10}

InitValidate ==
    /\ EmbedIdle
    /\ RunnerIdle
    /\ pc = "validate_in"
    /\ answer \in Responses
    /\ trip_length \in TripLengths
    /\ validation = Unbound
    /\ CliIdle
    /\ matches = Unbound
    /\ graph_facts = Unbound
    /\ answer_expanded = Unbound
    /\ answer_clean = Unbound
    /\ node_ids = Unbound
    /\ recs = Unbound
    /\ summary = Unbound
    /\ parts = Unbound

ApplyValidate ==
    /\ UNCHANGED <<embedVars, runnerVars>>
    /\ pc = "validate_in"
    /\ validation' = validate_response(answer, trip_length)
    /\ pc' = "validated"
    /\ UNCHANGED <<cliVars, matches, graph_facts, answer, trip_length,
                   answer_expanded, answer_clean, node_ids, recs, summary, parts>>

SpecValidate == InitValidate /\ [][ApplyValidate]_vars

\* the decimal digits of n, lowest last
Digits(n) ==
    LET d == <<"0", "1", "2", "3", "4", "5", "6", "7", "8", "9">>
    IN  IF n < 10 THEN <<d[n + 1]>> ELSE <<d[(n \div 10) + 1], d[(n % 10) + 1]>>

\* C3: validate_response(response, tripLength) is "Valid" exactly when the
\* literal text "Day {tripLength}" occurs in the response, and a value other
\* than "Valid" for every response without it.
C3_ValidIffDayOccurs ==
    pc = "validated" =>
        (validation = <<"V", "a", "l", "i", "d">>
            <=> HasSubstring(answer, <<"D", "a", "y", " ">> \o Digits(trip_length)))

\* a response that names a day in another spelling and is found incomplete
C3_Witness ==
    /\ pc = "validated"
    /\ validation # Valid
    /\ trip_length = 3
    /\ HasSubstring(answer, <<"d", "a", "y", " ", "3">>)

(***************************************************************************)
(* sanitize_answer applied twice (SpecSanitize)                            *)
(***************************************************************************)
MaxFragments == 3

LeakFragments ==
    { <<"s">>, <<"s", "c", "o", "r", "e", ":", " ", "1", ".", "0">>,
      <<"c", "o", "r", "e", ":", " ", "2", ".", "5">>, <<" ">>, <<"a">>, <<"\n">>,
      <<"N", "o", "t", "e", ":">>, <<"[", "n", "o", "d", "e", "_", "i", "d">>,
      <<"(", "n", "o", "d", "e", "_", "i", "d", ":", " ", "x", ")">>,
      <<":", " ", "y", "]">>,
      <<"[", "N", "o", "d", "e", "_", "I", "D", ":", "x", "]">> }

LeakTexts == {Concat(w) : w \in SeqsUpTo(LeakFragments, MaxFragments)} \cup {<<>>}

InitSanitize ==
    /\ EmbedIdle
    /\ RunnerIdle
    /\ pc = "sanitize_in"
    /\ answer_expanded \in LeakTexts
    /\ answer_clean = Unbound
    /\ CliIdle
    /\ matches = Unbound
    /\ graph_facts = Unbound
    /\ answer = Unbound
    /\ trip_length = 0
    /\ validation = Unbound
    /\ node_ids = Unbound
    /\ recs = Unbound
    /\ summary = Unbound
    /\ parts = Unbound

\* sanitize_answer(x)
SanitizeOnce ==
    /\ UNCHANGED <<embedVars, runnerVars>>
    /\ pc = "sanitize_in"
    /\ answer_clean' = sanitize_answer(answer_expanded)
    /\ pc' = "sanitized"
    /\ UNCHANGED <<cliVars, matches, graph_facts, answer, trip_length,
                   validation, answer_expanded, node_ids, recs, summary, parts>>

\* the result given to sanitize_answer again
SanitizeAgain ==
    /\ UNCHANGED <<embedVars, runnerVars>>
    /\ pc = "sanitized"
    /\ answer_expanded' = answer_clean
    /\ answer_clean' = sanitize_answer(answer_clean)
    /\ pc' = "resanitized"
    /\ UNCHANGED <<cliVars, matches, graph_facts, answer, trip_length,
                   validation, node_ids, recs, summary, parts>>

NextSanitize == SanitizeOnce \/ SanitizeAgain

SpecSanitize == InitSanitize /\ [][NextSanitize]_vars

\* C4: sanitize_answer is idempotent: sanitizing a sanitized text changes
\* nothing.
C4_Idempotent == pc = "resanitized" => answer_clean = answer_expanded

\* a "score: <digits>.<digits>", "[node_id: ...]" or "(node_id: ...)" token
\* starts at i
LeakAt(text, i) ==
    \/ ScoreEnd(text, i) # 0
    \/ NodeIdEnd("[", "]", text, i) # 0
    \/ NodeIdEnd("(", ")", text, i) # 0

\* C17: the output of sanitize_answer holds no "score: <digits>.<digits>"
\* token and no "[node_id: ...]" or "(node_id: ...)" token, whatever the
\* input: removing a token leaves no other token behind.
C17_NoTokenLeft ==
    pc = "sanitized" => \A i \in 1..Len(answer_clean) : ~LeakAt(answer_clean, i)

(***************************************************************************)
(* expand_citations on answers written from known parts (SpecCitations)    *)
(*                                                                         *)
(* A part is a plain text without brackets, or a placeholder "[" lead      *)
(* prefix ident trail "]" for an identifier ident.  Ids of matches are     *)
(* unique, as the ids of an index are; a node may be the target of several *)
(* facts, which then carry the same labels and description.                *)
(***************************************************************************)
MaxParts == 2

Id_zzz == <<"z", "z", "z">>

M_id ==
    [id |-> Id_id, score |-> 70,
     metadata |-> [name |-> Id_id, type |-> T_Place, tags |-> <<T_food>>,
                   city |-> Id_hue]]

F_hue ==
    [source |-> None, rel |-> T_near, target_id |-> Id_hue, target_name |-> Id_hue,
     target_desc |-> D_beach, labels |-> <<T_Place>>]

F_hoian ==
    [source |-> Id_hue, rel |-> T_near, target_id |-> Id_hoian,
     target_name |-> Id_hoian, target_desc |-> D_hills, labels |-> <<T_Town>>]

F_hoian_again ==
    [source |-> None, rel |-> T_food, target_id |-> Id_hoian,
     target_name |-> Id_hoian, target_desc |-> D_hills, labels |-> <<T_Town>>]

CiteMatchLists == {<<>>, <<M_sapa, M_id, M_hue>>}

CiteFactLists == {<<>>, <<F_hoian, F_hue, F_hoian_again>>}

CiteIdents == {Id_hue, Id_sapa, Id_hoian, Id_id, Id_zzz}

CitePrefixes ==
    { <<>>, <<"i", "d", ":", " ">>, <<"N", "o", "d", "e", "_", "I", "D", " ", ":">> }

CiteSpaces == {<<>>, <<" ">>}

PlainParts == {Day3 \o <<" ">>, <<"(", "x", ")">>}

Parts ==
    [kind : {"cite"}, lead : CiteSpaces, prefix : CitePrefixes, ident : CiteIdents,
     text : {<<>>}]
    \cup [kind : {"plain"}, lead : {<<>>}, prefix : {<<>>}, ident : {<<>>},
          text : PlainParts]

\* the text of a part
Render(part) ==
    IF part.kind = "plain" THEN part.text
    ELSE <<"[">> \o part.lead \o part.prefix \o part.ident \o part.lead \o <<"]">>

RECURSIVE RenderAll(_)
RenderAll(ps) == IF ps = <<>> THEN <<>> ELSE Render(ps[1]) \o RenderAll(Tail(ps))

InitCitations ==
    /\ EmbedIdle
    /\ RunnerIdle
    /\ pc = "expand_in"
    /\ parts \in SeqsUpTo(Parts, MaxParts)
    /\ answer = RenderAll(parts)
    /\ matches \in CiteMatchLists
    /\ graph_facts \in CiteFactLists
    /\ answer_expanded = Unbound
    /\ CliIdle
    /\ trip_length = 0
    /\ validation = Unbound
    /\ answer_clean = Unbound
    /\ node_ids = Unbound
    /\ recs = Unbound
    /\ summary = Unbound

ApplyExpand ==
    /\ UNCHANGED <<embedVars, runnerVars>>
    /\ pc = "expand_in"
    /\ answer_expanded' = expand_citations(answer, matches, graph_facts)
    /\ pc' = "expanded"
    /\ UNCHANGED <<cliVars, matches, graph_facts, answer, trip_length,
                   validation, answer_clean, node_ids, recs, summary, parts>>

SpecCitations == InitCitations /\ [][ApplyExpand]_vars

IsMatchId(ident) == \E k \in 1..Len(matches) : matches[k].id = ident

IsFactTarget(ident) == \E k \in 1..Len(graph_facts) : graph_facts[k].target_id = ident

TheMatch(ident) == matches[CHOOSE k \in 1..Len(matches) : matches[k].id = ident]

TheFact(ident) ==
    graph_facts[CHOOSE k \in 1..Len(graph_facts) : graph_facts[k].target_id = ident]

\* the placeholders the answer was written from
WrittenCites == SelectSeq(parts, LAMBDA p : p.kind = "cite")

\* C5: every placeholder whose identifier is the id of a Match is replaced by
\* a text that contains that Match's type, and every placeholder whose
\* identifier is neither a Match id nor a GraphFact target_id is in the
\* output as it was in the input.
C5_MatchTypeOrVerbatim ==
    pc = "expanded" =>
        LET pieces == ExpandPieces(answer, 1, matches, graph_facts)
            found == SelectSeq(pieces, LAMBDA p : p.cite)
            written == WrittenCites
        IN  /\ answer_expanded = ConcatOut(pieces)
            /\ Len(found) = Len(written)
            /\ \A k \in 1..Len(written) :
                  LET c == written[k]
                      f == found[k]
                  IN  /\ f.src = Render(c)
                      /\ IsMatchId(c.ident) =>
                            HasSubstring(f.out, TheMatch(c.ident).metadata.type)
                      /\ (~IsMatchId(c.ident) /\ ~IsFactTarget(c.ident)) =>
                            f.out = Render(c)

\* an answer with a prefixed placeholder for a Match and an unknown one
C5_Witness ==
    /\ pc = "expanded"
    /\ Len(WrittenCites) = 2
    /\ WrittenCites[1].prefix # <<>>
    /\ IsMatchId(WrittenCites[1].ident)
    /\ WrittenCites[2].ident = Id_zzz
    /\ graph_facts # <<>>

\* the text the claim expects in place of a part
Expected(part) ==
    IF part.kind = "plain" THEN part.text
    ELSE IF IsMatchId(part.ident)
    THEN LET meta == TheMatch(part.ident).metadata
         IN  IF meta.tags = <<>> THEN meta.type
             ELSE meta.type \o <<" ", "(">> \o Join(<<",", " ">>, meta.tags) \o <<")">>
    ELSE IF IsFactTarget(part.ident)
    THEN LET f == TheFact(part.ident)
             found == SelectSeq(Keywords,
                                LAMBDA kw : HasSubstring(LowerStr(f.target_desc), kw))
         IN  IF found = <<>> THEN f.labels[1]
             ELSE f.labels[1] \o <<" ", "(">> \o Join(<<",", " ">>, found) \o <<")">>
    ELSE Render(part)

RECURSIVE ExpectedAll(_)
ExpectedAll(ps) ==
    IF ps = <<>> THEN <<>> ELSE Expected(ps[1]) \o ExpectedAll(Tail(ps))

\* C6: an identifier is looked up among the Matches first and among the
\* GraphFacts (by target_id) second: an id that is both gives the Match form
\* "{type} ({tags})" (the bare type without tags), and the GraphFact form
\* "{label} ({keywords of target_desc})" appears only when no Match has the id.
C6_MatchBeforeFact == pc = "expanded" => answer_expanded = ExpectedAll(parts)

\* a placeholder whose identifier is both a Match id and a fact's target_id,
\* next to one that only a fact has
C6_Witness ==
    /\ pc = "expanded"
    /\ Len(WrittenCites) = 2
    /\ IsMatchId(WrittenCites[1].ident)
    /\ IsFactTarget(WrittenCites[1].ident)
    /\ ~IsMatchId(WrittenCites[2].ident)
    /\ IsFactTarget(WrittenCites[2].ident)

(***************************************************************************)
(* search_summary on lists of its own (SpecSummary)                        *)
(***************************************************************************)
MaxMatches == 6

MaxFacts == 8

ScoreValues == {10, 50, 90}

\* the k-th match of a result: its id is its own, its score is given
MatchNo(k, score) ==
    [id |-> <<"m">> \o IntToStr(k), score |-> score,
     metadata |-> [name |-> <<"m">> \o IntToStr(k), type |-> T_City,
                   tags |-> <<T_food>>, city |-> Id_hue]]

FactNo(k) ==
    [source |-> None, rel |-> T_near, target_id |-> <<"f">> \o IntToStr(k),
     target_name |-> <<"f">> \o IntToStr(k), target_desc |-> D_hills,
     labels |-> <<T_Place>>]

InitSummary ==
    /\ EmbedIdle
    /\ RunnerIdle
    /\ pc = "summary_in"
    /\ \E n \in 0..MaxMatches :
          \E scores \in [1..n -> ScoreValues] :
              matches = [k \in 1..n |-> MatchNo(k, scores[k])]
    /\ \E n \in 0..MaxFacts : graph_facts = [k \in 1..n |-> FactNo(k)]
    /\ summary = Unbound
    /\ CliIdle
    /\ answer = Unbound
    /\ trip_length = 0
    /\ validation = Unbound
    /\ answer_expanded = Unbound
    /\ answer_clean = Unbound
    /\ node_ids = Unbound
    /\ recs = Unbound
    /\ parts = Unbound

ApplySummary ==
    /\ UNCHANGED <<embedVars, runnerVars>>
    /\ pc = "summary_in"
    /\ summary' = search_summary(matches, graph_facts)
    /\ pc' = "summarized"
    /\ UNCHANGED <<cliVars, matches, graph_facts, answer, trip_length,
                   validation, answer_expanded, answer_clean, node_ids, recs,
                   parts>>

SpecSummary == InitSummary /\ [][ApplySummary]_vars

\* C7: the summary lists at most 5 matches, the 5 of highest score in
\* descending order of score whatever the order of the input, and at most 7
\* graph facts, the first 7 of the input in their order; from no matches and
\* no facts both sections are empty.
C7_TopFiveAndFirstSeven ==
    pc = "summarized" =>
        LET vec == summary.vec
            graph == summary.graph
            listed == {vec[i].name : i \in 1..Len(vec)}
        IN  /\ Len(vec) = (IF Len(matches) < 5 THEN Len(matches) ELSE 5)
            /\ \A i, j \in 1..Len(vec) : i < j => vec[i].score >= vec[j].score
            /\ Cardinality(listed) = Len(vec)
            /\ \A i \in 1..Len(vec) :
                  \E k \in 1..Len(matches) :
                      /\ matches[k].metadata.name = vec[i].name
                      /\ matches[k].score = vec[i].score
            /\ \A k \in 1..Len(matches) :
                  matches[k].metadata.name \notin listed =>
                      \A i \in 1..Len(vec) : matches[k].score <= vec[i].score
            /\ Len(graph) = (IF Len(graph_facts) < 7 THEN Len(graph_facts) ELSE 7)
            /\ \A i \in 1..Len(graph) : graph[i].target_name = graph_facts[i].target_name
            /\ matches = <<>> => vec = <<>>
            /\ graph_facts = <<>> => graph = <<>>

\* more than 5 matches with the best score last, and more than 7 facts
C7_Witness ==
    /\ pc = "summarized"
    /\ Len(matches) = 6
    /\ matches[6].score > matches[1].score
    /\ matches[1].score < matches[2].score
    /\ Len(graph_facts) = 8

(***************************************************************************)
(* The graph fetch on results of its own (SpecGraph)                       *)
(*                                                                         *)
(* A result is a run of rows of one kind (with or without a second hop)    *)
(* followed by a run of the other kind, of a length around the places      *)
(* where the fetch changes its behaviour; one row may carry descriptions   *)
(* longer than the limit.                                                  *)
(***************************************************************************)
LongDesc == [i \in 1..(DescLimit + 1) |-> "x"]

RowCounts ==
    {0, 1, 2}
    \cup ((FactLimit \div 2 - 1)..(FactLimit \div 2 + 1))
    \cup ((FactLimit - 1)..(FactLimit + 1))
    \cup {QueryLimit - 1, QueryLimit}

RowNo(k, pair, long) ==
    [rel |-> T_near, labels |-> <<T_Place>>, id |-> <<"n">> \o IntToStr(k),
     name |-> <<"n">> \o IntToStr(k),
     description |-> IF long THEN LongDesc ELSE IF k % 3 = 0 THEN None ELSE D_hills,
     rel2 |-> IF pair THEN T_near ELSE None,
     labels2 |-> IF pair THEN <<T_Town>> ELSE None,
     id2 |-> IF pair THEN <<"o">> \o IntToStr(k) ELSE None,
     name2 |-> IF pair THEN <<"o">> \o IntToStr(k) ELSE None,
     description2 |-> IF pair /\ long THEN LongDesc
                      ELSE IF pair THEN D_beach ELSE None]

InitGraph ==
    /\ EmbedIdle
    /\ RunnerIdle
    /\ pc = "fetch_in"
    /\ \E n \in RowCounts, a \in 0..QueryLimit, pairsFirst \in BOOLEAN,
          longAt \in {0, 1, FactLimit \div 2} :
          /\ a <= n
          /\ longAt <= n
          /\ recs = [k \in 1..n |-> RowNo(k, (k <= a) = pairsFirst, k = longAt)]
          /\ node_ids \in (IF n = 0 THEN {<<>>, <<Id_hue>>} ELSE {<<Id_hue>>})
    /\ graph_facts = Unbound
    /\ CliIdle
    /\ matches = Unbound
    /\ answer = Unbound
    /\ trip_length = 0
    /\ validation = Unbound
    /\ answer_expanded = Unbound
    /\ answer_clean = Unbound
    /\ summary = Unbound
    /\ parts = Unbound

\* graph.fetch_graph_context(node_ids)
FetchSync ==
    /\ UNCHANGED <<embedVars, runnerVars>>
    /\ pc = "fetch_in"
    /\ graph_facts' = fetch_graph_context(recs)
    /\ pc' = "fetched"
    /\ UNCHANGED <<cliVars, matches, answer, trip_length, validation,
                   answer_expanded, answer_clean, node_ids, recs, summary, parts>>

\* async_graph.fetch_graph_context_async(node_ids)
FetchAsync ==
    /\ UNCHANGED <<embedVars, runnerVars>>
    /\ pc = "fetch_in"
    /\ graph_facts' = fetch_graph_context_async(node_ids, recs)
    /\ pc' = "fetched_async"
    /\ UNCHANGED <<cliVars, matches, answer, trip_length, validation,
                   answer_expanded, answer_clean, node_ids, recs, summary, parts>>

NextGraph == FetchSync \/ FetchAsync

SpecGraph == InitGraph /\ [][NextGraph]_vars

\* C8: a list returned by either fetch has at most 50 facts, each description
\* has at most 400 characters, and every 2-hop fact (source not null) comes
\* right after the 1-hop fact of its own row, whose target_id is its source.
C8_BoundedAndPaired ==
    pc \in {"fetched", "fetched_async"} =>
        /\ Len(graph_facts) <= 50
        /\ \A i \in 1..Len(graph_facts) :
              /\ Len(graph_facts[i].target_desc) <= 400
              /\ graph_facts[i].source # None =>
                    /\ i > 1
                    /\ graph_facts[i - 1].source = None
                    /\ graph_facts[i - 1].target_id = graph_facts[i].source
                    /\ \E k \in 1..Len(recs) :
                          /\ recs[k].id = graph_facts[i - 1].target_id
                          /\ recs[k].id2 = graph_facts[i].target_id

\* the cut at 50 falls between the two facts of a row
C8_Witness ==
    /\ pc \in {"fetched", "fetched_async"}
    /\ Len(graph_facts) = 50
    /\ graph_facts[50].source = None
    /\ \E k \in 1..Len(recs) :
          /\ recs[k].id = graph_facts[50].target_id
          /\ recs[k].rel2 # None
    /\ \E i \in 1..50 : Len(graph_facts[i].target_desc) = 400

(***************************************************************************)
(* build_prompt on arguments of its own (SpecPrompt)                       *)
(***************************************************************************)
\* the values under the key "template"
TemplateValues == {"", "concise", "chain_of_thought", "Concise", "detailed"}

PromptPrefs ==
    {NoPrefs, <<>>, [budget |-> Medium, interests |-> Romantic]}
    \cup {[template |-> t] : t \in TemplateValues}
    \cup {[budget |-> Medium, interests |-> Romantic, template |-> t] :
             t \in TemplateValues}

\* no match, a few, and more than the prompt lists
PromptMatchCounts == {0, 2, PromptMatches + 1}

PromptFactCounts == {0, PromptFacts + 1}

InitPrompt ==
    /\ EmbedIdle
    /\ RunnerIdle
    /\ pc = "prompt_in"
    /\ preferences \in PromptPrefs
    /\ \E raw \in QueryInputs : query = Strip(raw)
    /\ \E n \in PromptMatchCounts : matches = [k \in 1..n |-> MatchNo(k, 50 + k)]
    /\ \E n \in PromptFactCounts : graph_facts = [k \in 1..n |-> FactNo(k)]
    /\ prompt = Unbound
    /\ steps = <<>>
    /\ requests = <<>>
    /\ replies = <<>>
    /\ printed = <<>>
    /\ exc = "none"
    /\ raised_by = NoRaise
    /\ served = 0
    /\ answer = Unbound
    /\ trip_length = 0
    /\ validation = Unbound
    /\ answer_expanded = Unbound
    /\ answer_clean = Unbound
    /\ node_ids = Unbound
    /\ recs = Unbound
    /\ summary = Unbound
    /\ parts = Unbound

ApplyBuildPrompt ==
    /\ UNCHANGED <<embedVars, runnerVars>>
    /\ pc = "prompt_in"
    /\ prompt' = build_prompt(query, matches, graph_facts, preferences)
    /\ pc' = "prompted"
    /\ UNCHANGED <<preferences, query, matches, graph_facts, answer, trip_length,
                   validation, answer_expanded, answer_clean, requests, replies,
                   printed, exc, raised_by, served, node_ids, recs, summary, parts,
                   steps>>

SpecPrompt == InitPrompt /\ [][ApplyBuildPrompt]_vars

\* the name under preferences['template'], or "" when there is none
GivenTemplate ==
    IF preferences = NoPrefs THEN ""
    ELSE IF "template" \in DOMAIN preferences THEN preferences["template"]
    ELSE ""

\* C12: build_prompt uses the template named by preferences['template'] when
\* the name is "concise" or "chain_of_thought" and the "concise" template in
\* every other case (no preferences, no such key, an empty or unknown name),
\* and returns exactly two turns: a system turn, then a user turn.
C12_TemplateChoice ==
    pc = "prompted" =>
        /\ Len(prompt) = 2
        /\ prompt[1].role = "system"
        /\ prompt[2].role = "user"
        /\ GivenTemplate = "chain_of_thought" =>
              /\ prompt[1].content.system = "chain_of_thought"
              /\ prompt[1].content.suffix = "chain_of_thought"
        /\ GivenTemplate # "chain_of_thought" =>
              /\ prompt[1].content.system = "concise"
              /\ prompt[1].content.suffix = "concise"

\* a prompt built for preferences that name a template there is none of
C12_Witness ==
    /\ pc = "prompted"
    /\ GivenTemplate = "detailed"
    /\ Len(matches) > 10

(***************************************************************************)
(* hashlib.sha256 (FIPS 180-4)                                             *)
(*                                                                         *)
(* A 32-bit word is the pair <<high, low>> of its 16-bit halves; a         *)
(* message is a sequence of bytes.                                         *)
(***************************************************************************)
Half == 65536

RECURSIVE BitXor(_, _)
BitXor(a, b) ==
    IF a = 0 THEN b
    ELSE IF b = 0 THEN a
    ELSE ((a + b) % 2) + 2 * BitXor(a \div 2, b \div 2)

RECURSIVE BitAnd(_, _)
BitAnd(a, b) ==
    IF a = 0 \/ b = 0 THEN 0
    ELSE (a % 2) * (b % 2) + 2 * BitAnd(a \div 2, b \div 2)

\* the one element of a set of one element
One(S) == CHOOSE r \in S : TRUE

Xor32(x, y) ==
    One({<<BitXor(a[1], b[1]), BitXor(a[2], b[2])>> : a \in {x}, b \in {y}})

And32(x, y) ==
    One({<<BitAnd(a[1], b[1]), BitAnd(a[2], b[2])>> : a \in {x}, b \in {y}})

Not32(x) == One({<<Half - 1 - a[1], Half - 1 - a[2]>> : a \in {x}})

\* addition modulo 2^32
Add32(x, y) ==
    One({<<(a[1] + b[1] + ((a[2] + b[2]) \div Half)) % Half, (a[2] + b[2]) % Half>> :
            a \in {x}, b \in {y}})

\* rotation to the right by n bits, 0 < n < 32
Rotr32(x, n) ==
    LET m == n % 16
        p == 2 ^ m
        q == 2 ^ (16 - m)
    IN  One({IF m = 0 THEN IF n >= 16 THEN <<a[2], a[1]>> ELSE a
             ELSE IF n >= 16
                  THEN <<(a[2] \div p) + (a[1] % p) * q, (a[1] \div p) + (a[2] % p) * q>>
                  ELSE <<(a[1] \div p) + (a[2] % p) * q, (a[2] \div p) + (a[1] % p) * q>> :
             a \in {x}})

\* shift to the right by n bits, 0 < n < 16
Shr32(x, n) ==
    LET p == 2 ^ n
        q == 2 ^ (16 - n)
    IN  One({<<a[1] \div p, (a[2] \div p) + (a[1] % p) * q>> : a \in {x}})

Ch(x, y, z) ==
    One({Xor32(And32(a, b), And32(Not32(a), c)) : a \in {x}, b \in {y}, c \in {z}})

Maj(x, y, z) ==
    One({Xor32(Xor32(And32(a, b), And32(a, c)), And32(b, c)) :
            a \in {x}, b \in {y}, c \in {z}})

BigSigma0(x) ==
    One({Xor32(Xor32(Rotr32(a, 2), Rotr32(a, 13)), Rotr32(a, 22)) : a \in {x}})

BigSigma1(x) ==
    One({Xor32(Xor32(Rotr32(a, 6), Rotr32(a, 11)), Rotr32(a, 25)) : a \in {x}})

SmallSigma0(x) ==
    One({Xor32(Xor32(Rotr32(a, 7), Rotr32(a, 18)), Shr32(a, 3)) : a \in {x}})

SmallSigma1(x) ==
    One({Xor32(Xor32(Rotr32(a, 17), Rotr32(a, 19)), Shr32(a, 10)) : a \in {x}})

\* the round constants
ShaK ==
    << <<17034, 12184>>, <<28983, 17553>>, <<46528, 64463>>,
       <<59829, 56229>>, <<14678, 49755>>, <<23025, 4593>>, <<37439, 33444>>,
       <<43804, 24277>>, <<55303, 43672>>, <<4739, 23297>>, <<9265, 34238>>,
       <<21772, 32195>>, <<29374, 23924>>, <<32990, 45566>>, <<39900, 1703>>,
       <<49563, 61812>>, <<58523, 27073>>, <<61374, 18310>>, <<4033, 40390>>,
       <<9228, 41420>>, <<11753, 11375>>, <<19060, 33962>>, <<23728, 43484>>,
       <<30457, 35034>>, <<38974, 20818>>, <<43057, 50797>>,
       <<45059, 10184>>, <<48985, 32711>>, <<50912, 3059>>, <<54695, 37191>>,
       <<1738, 25425>>, <<5161, 10599>>, <<10167, 2693>>, <<11803, 8504>>,
       <<19756, 28156>>, <<21304, 3347>>, <<25866, 29524>>, <<30314, 2747>>,
       <<33218, 51502>>, <<37490, 11397>>, <<41663, 59553>>,
       <<43034, 26187>>, <<49739, 35696>>, <<51052, 20899>>,
       <<53650, 59417>>, <<54937, 1572>>, <<62478, 13701>>, <<4202, 41072>>,
       <<6564, 49430>>, <<7735, 27656>>, <<10056, 30540>>, <<13488, 48309>>,
       <<14620, 3251>>, <<20184, 43594>>, <<23452, 51791>>, <<26670, 28659>>,
       <<29839, 33518>>, <<30885, 25455>>, <<33992, 30740>>, <<36039, 520>>,
       <<37054, 65530>>, <<42064, 27883>>, <<48889, 41975>>,
       <<50801, 30962>> >>

\* the initial hash value
ShaH0 ==
    << <<27145, 58983>>, <<47975, 44677>>, <<15470, 62322>>,
       <<42319, 62778>>, <<20750, 21119>>, <<39685, 26764>>, <<8067, 55723>>,
       <<23520, 52505>> >>

\* the padded message: the bytes, 0x80, zeros, and the length in bits as 8
\* bytes, a multiple of 64 bytes in all
ShaPad(bytes) ==
    LET n == Len(bytes)
        total == (((n + 8) \div 64) + 1) * 64
        bits == n * 8
    IN  [i \in 1..total |->
            IF i <= n THEN bytes[i]
            ELSE IF i = n + 1 THEN 128
            ELSE IF i <= total - 4 THEN 0
            ELSE (bits \div (256 ^ (total - i))) % 256]

\* the sixteen words of block b (from 0) of the padded message
BlockWords(padded, b) ==
    [t \in 1..16 |->
        LET o == b * 64 + (t - 1) * 4
        IN  <<padded[o + 1] * 256 + padded[o + 2],
              padded[o + 3] * 256 + padded[o + 4]>>]

\* the word of the message schedule that follows the words w
ScheduleWord(w) ==
    LET t == Len(w) + 1
    IN  Add32(Add32(SmallSigma1(w[t - 2]), w[t - 7]),
              Add32(SmallSigma0(w[t - 15]), w[t - 16]))

\* the schedule w grown by n words
RECURSIVE ScheduleN(_, _)
ScheduleN(w, n) ==
    One({IF n = 0 THEN u ELSE ScheduleN(Append(u, ScheduleWord(u)), n - 1) :
            u \in {w}})

\* the message schedule: the 16 words of the block grown to 64, eight words
\* at a time
Schedule(w) ==
    ScheduleN(ScheduleN(ScheduleN(ScheduleN(ScheduleN(ScheduleN(
        w \o <<>>, 8), 8), 8), 8), 8), 8)

\* round t on the working variables v = <<a, b, c, d, e, f, g, h>>
Round(v, w, t) ==
    One({<<Add32(t1, t2), v[1], v[2], v[3], Add32(v[4], t1), v[5], v[6], v[7]>> :
            t1 \in {Add32(Add32(Add32(v[8], BigSigma1(v[5])),
                                Add32(Ch(v[5], v[6], v[7]), ShaK[t])), w[t])},
            t2 \in {Add32(BigSigma0(v[1]), Maj(v[1], v[2], v[3]))}})

\* the n rounds t..t+n-1
RECURSIVE RoundsN(_, _, _, _)
RoundsN(v, w, t, n) ==
    One({IF n = 0 THEN u ELSE RoundsN(Round(u, w, t), w, t + 1, n - 1) :
            u \in {v}})

\* the 64 rounds, eight at a time
Rounds(v, w) ==
    One({RoundsN(RoundsN(RoundsN(RoundsN(RoundsN(RoundsN(RoundsN(RoundsN(
             v, u, 1, 8), u, 9, 8), u, 17, 8), u, 25, 8), u, 33, 8), u, 41, 8),
             u, 49, 8), u, 57, 8) : u \in {w}})

\* the hash value after blocks b.. of the padded message
RECURSIVE ShaBlocks(_, _, _)
ShaBlocks(h, padded, b) ==
    One({IF b * 64 >= Len(p) THEN g
         ELSE ShaBlocks(One({<<Add32(g[1], v[1]), Add32(g[2], v[2]),
                               Add32(g[3], v[3]), Add32(g[4], v[4]),
                               Add32(g[5], v[5]), Add32(g[6], v[6]),
                               Add32(g[7], v[7]), Add32(g[8], v[8])>> :
                                  v \in {Rounds(g, Schedule(BlockWords(p, b)))}}),
                        p, b + 1) :
         g \in {h}, p \in {padded}})

HexDigits ==
    <<"0", "1", "2", "3", "4", "5", "6", "7", "8", "9", "a", "b", "c", "d", "e", "f">>

\* the four hexadecimal digits of a 16-bit half
Hex16(n) ==
    <<HexDigits[n \div 4096 + 1], HexDigits[((n \div 256) % 16) + 1],
      HexDigits[((n \div 16) % 16) + 1], HexDigits[(n % 16) + 1]>>

\* hashlib.sha256(bytes).hexdigest()
sha256_hexdigest(bytes) ==
    One({Hex16(h[1][1]) \o Hex16(h[1][2]) \o Hex16(h[2][1]) \o Hex16(h[2][2])
         \o Hex16(h[3][1]) \o Hex16(h[3][2]) \o Hex16(h[4][1]) \o Hex16(h[4][2])
         \o Hex16(h[5][1]) \o Hex16(h[5][2]) \o Hex16(h[6][1]) \o Hex16(h[6][2])
         \o Hex16(h[7][1]) \o Hex16(h[7][2]) \o Hex16(h[8][1]) \o Hex16(h[8][2]) :
            h \in {ShaBlocks(ShaH0, ShaPad(bytes) \o <<>>, 0)}})

\* the printable ASCII characters, from code 32 on; the double quote, the
\* backslash and the backtick, which no text of the model holds, are written
\* by name
AsciiPrintable ==
    << " ", "!", "(quote)", "#", "$", "%", "&", "'", "(", ")", "*", "+", ",", "-",
       ".", "/", "0", "1", "2", "3", "4", "5", "6", "7", "8", "9", ":", ";",
       "<", "=", ">", "?", "@", "A", "B", "C", "D", "E", "F", "G", "H", "I",
       "J", "K", "L", "M", "N", "O", "P", "Q", "R", "S", "T", "U", "V", "W",
       "X", "Y", "Z", "[", "(backslash)", "]", "^", "_", "(backtick)", "a", "b",
       "c", "d", "e",
       "f", "g", "h", "i", "j", "k", "l", "m", "n", "o", "p", "q", "r", "s",
       "t", "u", "v", "w", "x", "y", "z", "{", "|", "}", "~" >>

\* str.encode() of a text of printable ASCII characters: one byte each
Ord(c) == 31 + (CHOOSE i \in 1..Len(AsciiPrintable) : AsciiPrintable[i] = c)

Encode(text) == [i \in 1..Len(text) |-> Ord(text[i])]

(***************************************************************************)
(* embed.get_text_hash                                                     *)
(***************************************************************************)
\* the hash of the text alone, the model left out of the key
get_text_hash_no_text(text, model) ==
    sha256_hexdigest(Encode(IF model = None THEN <<>> ELSE model))

\* embed.py:72: key = text if model is None else f"{model}:{text}"
HashKey(text, model) == IF model = None THEN text ELSE model \o <<":">> \o text

\* embed.py:70-73
get_text_hash(text, model) == sha256_hexdigest(Encode(HashKey(text, model)))

\* the chat loop and the functions of prompting.py and graph.py are not in use
PipelineIdle ==
    /\ CliIdle
    /\ matches = Unbound
    /\ graph_facts = Unbound
    /\ answer = Unbound
    /\ trip_length = 0
    /\ validation = Unbound
    /\ answer_expanded = Unbound
    /\ answer_clean = Unbound
    /\ node_ids = Unbound
    /\ recs = Unbound
    /\ summary = Unbound
    /\ parts = Unbound

pipelineVars ==
    <<cliVars, matches, graph_facts, answer, trip_length, validation,
      answer_expanded, answer_clean, node_ids, recs, summary, parts>>

(***************************************************************************)
(* get_text_hash called twice (SpecHash)                                   *)
(***************************************************************************)
Hello == <<"h", "e", "l", "l", "o">>

World == <<"w", "o", "r", "l", "d">>

\* longer than one block of the hash
LongText == [i \in 1..60 |-> "a"]

HashTexts ==
    {<<>>, Hello, World, Hello \o <<" ">>, <<"H", "e", "l", "l", "o">>,
     <<"a", ":", "b">>, LongText}

\* the default model of embed_text
SmallModel ==
    <<"t", "e", "x", "t", "-", "e", "m", "b", "e", "d", "d", "i", "n", "g", "-",
      "3", "-", "s", "m", "a", "l", "l">>

HashModels == {None, SmallModel}

HashCall(text, model) ==
    [fn |-> "get_text_hash", text |-> text, model |-> model, result |-> None]

InitHash ==
    /\ pc = "hash1"
    /\ \E t1 \in HashTexts, t2 \in HashTexts, m \in HashModels :
          tasks = <<HashCall(t1, m), HashCall(t2, m)>>
    /\ cache_dir = <<>>
    /\ inodes = <<>>
    /\ permits = 0
    /\ provider = <<>>
    /\ PipelineIdle
    /\ RunnerIdle

\* the first call
HashFirst ==
    /\ pc = "hash1"
    /\ tasks' = [tasks EXCEPT ![1].result = get_text_hash(tasks[1].text, tasks[1].model)]
    /\ pc' = "hash2"
    /\ UNCHANGED <<pipelineVars, runnerVars, cache_dir, inodes, permits, provider>>

\* the second call
HashSecond ==
    /\ pc = "hash2"
    /\ tasks' = [tasks EXCEPT ![2].result = get_text_hash(tasks[2].text, tasks[2].model)]
    /\ pc' = "hashed"
    /\ UNCHANGED <<pipelineVars, runnerVars, cache_dir, inodes, permits, provider>>

NextHash == HashFirst \/ HashSecond

SpecHash == InitHash /\ [][NextHash]_vars

\* C15: two calls of get_text_hash with the same text and model return the
\* same hash, and two calls with different texts and the same model return
\* different hashes.
C15_HashSeparatesTexts ==
    pc = "hashed" =>
        /\ Len(tasks[1].result) = 64
        /\ tasks[1].text = tasks[2].text => tasks[1].result = tasks[2].result
        /\ tasks[1].text # tasks[2].text => tasks[1].result # tasks[2].result

\* two texts that differ in one trailing space, hashed with the default model
C15_Witness ==
    /\ pc = "hashed"
    /\ tasks[1].text = Hello
    /\ tasks[2].text = Hello \o <<" ">>
    /\ tasks[1].model = SmallModel

(***************************************************************************)
(* The file cache of embed.py                                              *)
(*                                                                         *)
(* cache_dir maps a file name to the file it names and inodes holds the    *)
(* content of each file: a sequence of blocks, the units in which a        *)
(* buffered writer hands its text to the file.  An embedding of n numbers  *)
(* is dumped as n blocks.                                                  *)
(***************************************************************************)
\* embed.py:76-77
CachePath(hash_key) == hash_key \o <<".", "j", "s", "o", "n">>

\* embed.py:95
TmpPath(hash_key) == CachePath(hash_key) \o <<".", "t", "m", "p">>

\* the directory with name bound to file ino
Bind(dir, name, ino) ==
    [n \in (DOMAIN dir) \cup {name} |-> IF n = name THEN ino ELSE dir[n]]

\* the directory without name
Unbind(dir, name) == [n \in (DOMAIN dir) \ {name} |-> dir[n]]

\* open(name, 'w'): the file is made if there is none and emptied if there
\* is one; ino is the file the writer holds
OpenForWrite(dir, files, name) ==
    IF name \in DOMAIN dir
    THEN [dir |-> dir, files |-> [files EXCEPT ![dir[name]] = <<>>],
          ino |-> dir[name]]
    ELSE [dir |-> Bind(dir, name, Len(files) + 1), files |-> Append(files, <<>>),
          ino |-> Len(files) + 1]

\* what a block never written reads as
Hole == [k |-> 0, of |-> <<>>]

\* a write of one block at position k of file ino
WriteBlock(files, ino, k, block) ==
    LET old == files[ino]
        n == IF Len(old) < k THEN k ELSE Len(old)
    IN  [files EXCEPT ![ino] =
            [i \in 1..n |-> IF i = k THEN block
                            ELSE IF i <= Len(old) THEN old[i] ELSE Hole]]

\* json.dump(embedding, f): block k of the text of embedding
JsonDump(embedding) == [k \in 1..Len(embedding) |-> [k |-> k, of |-> embedding]]

\* the blocks are those of one text, whole and in place
IsDumpOf(content, embedding) == content = JsonDump(embedding)

\* the blocks are each in place and of texts of the length of the file, but
\* not of one text
IsMixedDump(content) ==
    /\ content # <<>>
    /\ \A i \in 1..Len(content) :
          content[i].k = i /\ Len(content[i].of) = Len(content)
    /\ \E i \in 1..Len(content) : content[i].of # content[1].of

\* json.load(f) inside the try of load_cache: the values it may return for a
\* file of this content, None standing for a text that does not parse.  A
\* file put together from blocks of two texts parses or not as its bytes
\* happen to fall.
JsonLoad(content) ==
    IF content # <<>> /\ IsDumpOf(content, content[1].of) THEN {content[1].of}
    ELSE IF IsMixedDump(content)
         THEN {None, [i \in 1..Len(content) |-> content[i].of[i]]}
         ELSE {None}

\* embed.py:80-89 in one piece: what load_cache may return
load_cache(dir, files, hash_key) ==
    IF CachePath(hash_key) \in DOMAIN dir
    THEN JsonLoad(files[dir[CachePath(hash_key)]])
    ELSE {None}

\* the blocks of embedding written one after the other from position k on
RECURSIVE WriteAll(_, _, _, _)
WriteAll(files, ino, embedding, k) ==
    IF k > Len(embedding) THEN files
    ELSE WriteAll(WriteBlock(files, ino, k, JsonDump(embedding)[k]), ino,
                  embedding, k + 1)

\* embed.py:92-98 in one piece: the directory and the files after save_cache
save_cache(dir, files, hash_key, embedding) ==
    LET opened == OpenForWrite(dir, files, TmpPath(hash_key))
        written == WriteAll(opened.files, opened.ino, embedding, 1)
    IN  [dir |-> Bind(Unbind(opened.dir, TmpPath(hash_key)), CachePath(hash_key),
                      opened.ino),
         files |-> written]

(***************************************************************************)
(* embed.embed_text called again and again (SpecEmbed)                     *)
(***************************************************************************)
MaxEmbedCalls == 2

EmbedTexts == {Hello, World}

LargeModel ==
    <<"t", "e", "x", "t", "-", "e", "m", "b", "e", "d", "d", "i", "n", "g", "-",
      "3", "-", "l", "a", "r", "g", "e">>

EmbedModels == {SmallModel, LargeModel}

\* the embeddings the provider may answer with
Embeddings == {<<1, 2>>, <<3, 4>>}

\* an embedding found in the cache when the session starts
StoredEmbedding == <<5, 6>>

\* get_text_hash of the texts and models of the session, computed once
TextHashes ==
    { [text |-> k[1], model |-> k[2], hash |-> get_text_hash(k[1], k[2])] :
          k \in EmbedTexts \X EmbedModels }

\* get_text_hash(text, model), looked up
HashOf(text, model) ==
    (CHOOSE r \in TextHashes : r.text = text /\ r.model = model).hash

\* the cache directory at the start: empty, with the embedding of a text, or
\* with a file for it that was cut short
InitialCaches ==
    LET key == HashOf(Hello, SmallModel)
        dir == Bind(<<>>, CachePath(key), 1)
    IN  { [dir |-> <<>>, files |-> <<>>],
          [dir |-> dir, files |-> <<JsonDump(StoredEmbedding)>>],
          [dir |-> dir, files |-> << <<JsonDump(StoredEmbedding)[1]>> >>] }

\* what client.embeddings.create may raise
ProviderErrors == {"APIConnectionError"}

EmbedCall(text, model, use_cache) ==
    [fn |-> "embed_text", text |-> text, model |-> model, use_cache |-> use_cache,
     hash_key |-> None, cached |-> None, embedding |-> None, result |-> None,
     raised |-> "none"]

InitEmbed ==
    /\ pc = "idle"
    /\ \E c \in InitialCaches : cache_dir = c.dir /\ inodes = c.files
    /\ tasks = <<>>
    /\ provider = <<>>
    /\ permits = 0
    /\ PipelineIdle
    /\ RunnerIdle

\* embed_text(text, model, use_cache) is called
EmbedStart ==
    /\ pc = "idle"
    /\ Len(tasks) < MaxEmbedCalls
    /\ \E text \in EmbedTexts, model \in EmbedModels, use_cache \in BOOLEAN :
          tasks' = Append(tasks, EmbedCall(text, model, use_cache))
    /\ pc' = "lookup"
    /\ UNCHANGED <<pipelineVars, runnerVars, cache_dir, inodes, permits, provider>>

\* embed.py:103-107
EmbedLookup ==
    /\ pc = "lookup"
    /\ LET i == Len(tasks)
           t == tasks[i]
           key == HashOf(t.text, t.model)
       IN  IF t.use_cache
           THEN \E cached \in load_cache(cache_dir, inodes, key) :
                   /\ tasks' = [tasks EXCEPT ![i].hash_key = key,
                                             ![i].cached = cached,
                                             ![i].result = cached]
                   /\ pc' = IF cached # None THEN "idle" ELSE "create"
           ELSE /\ pc' = "create"
                /\ UNCHANGED tasks
    /\ UNCHANGED <<pipelineVars, runnerVars, cache_dir, inodes, permits, provider>>

\* embed.py:109-110 and, without the cache, 115: the provider answers with an
\* embedding, or the call raises
EmbedCreate ==
    /\ pc = "create"
    /\ LET i == Len(tasks)
           t == tasks[i]
           request == [by |-> i, model |-> t.model, input |-> <<t.text>>]
       IN  \/ \E e \in Embeddings :
                /\ provider' = Append(provider, [request |-> request, response |-> e])
                /\ tasks' = [tasks EXCEPT ![i].embedding = e,
                                          ![i].result = IF t.use_cache THEN None ELSE e]
                /\ pc' = IF t.use_cache THEN "save" ELSE "idle"
           \/ \E err \in ProviderErrors :
                /\ provider' = Append(provider, [request |-> request, response |-> None])
                /\ tasks' = [tasks EXCEPT ![i].raised = err]
                /\ pc' = "idle"
    /\ UNCHANGED <<pipelineVars, runnerVars, cache_dir, inodes, permits>>

\* the embedding returned without being stored
EmbedSave_skip ==
    /\ pc = "save"
    /\ tasks' = [tasks EXCEPT ![Len(tasks)].result = tasks[Len(tasks)].embedding]
    /\ pc' = "idle"
    /\ UNCHANGED <<pipelineVars, runnerVars, cache_dir, inodes, permits, provider>>

\* embed.py:112-115
EmbedSave ==
    /\ pc = "save"
    /\ LET t == tasks[Len(tasks)]
           saved == save_cache(cache_dir, inodes, t.hash_key, t.embedding)
       IN  /\ cache_dir' = saved.dir
           /\ inodes' = saved.files
    /\ tasks' = [tasks EXCEPT ![Len(tasks)].result = tasks[Len(tasks)].embedding]
    /\ pc' = "idle"
    /\ UNCHANGED <<pipelineVars, runnerVars, permits, provider>>

NextEmbed == EmbedStart \/ EmbedLookup \/ EmbedCreate \/ EmbedSave

SpecEmbed == InitEmbed /\ [][NextEmbed]_vars

\* the answers the provider gave to call i
AnswersTo(i) == SelectSeq(provider, LAMBDA r : r.request.by = i)

\* call i has returned or raised
Ended(i) == i < Len(tasks) \/ pc = "idle"

\* C16: embed_text calls the provider at most once and returns its embedding
\* for the text: once when use_cache is false or the cache has no readable
\* entry for the text and model, not at all on a hit, when the stored
\* embedding is returned; after a miss with use_cache true the embedding is
\* stored: a later embed_text of the same text and model calls no provider and
\* returns the same embedding.
C16_ProviderCalls ==
    /\ \A i \in 1..Len(tasks) :
          LET t == tasks[i]
              hit == t.use_cache /\ t.cached # None
          IN  /\ Len(AnswersTo(i)) <= 1
              /\ \A k \in 1..Len(AnswersTo(i)) :
                    /\ AnswersTo(i)[k].request.input = <<t.text>>
                    /\ AnswersTo(i)[k].request.model = t.model
              /\ Ended(i) =>
                    /\ hit => Len(AnswersTo(i)) = 0 /\ t.result = t.cached
                    /\ ~hit =>
                          /\ Len(AnswersTo(i)) = 1
                          /\ t.raised = "none" => t.result = AnswersTo(i)[1].response
                          /\ t.raised # "none" => AnswersTo(i)[1].response = None
    /\ \A i, j \in 1..Len(tasks) :
          (/\ i < j
           /\ Ended(j)
           /\ tasks[i].use_cache
           /\ tasks[j].use_cache
           /\ tasks[i].raised = "none"
           /\ tasks[i].text = tasks[j].text
           /\ tasks[i].model = tasks[j].model) =>
              /\ Len(AnswersTo(j)) = 0
              /\ tasks[j].result = tasks[i].result

\* a text embedded after a miss on a file cut short, then asked for again
C16_Witness ==
    /\ pc = "idle"
    /\ Len(tasks) = 2
    /\ tasks[1].text = Hello
    /\ tasks[1].model = SmallModel
    /\ tasks[1].use_cache
    /\ tasks[1].cached = None
    /\ tasks[1].result \in Embeddings
    /\ tasks[2].text = Hello
    /\ tasks[2].model = SmallModel
    /\ tasks[2].use_cache
    /\ tasks[2].cached = tasks[1].result
    /\ Len(provider) = 1
    /\ Len(inodes) = 2

(***************************************************************************)
(* save_cache and load_cache run by several threads on one key (SpecCache) *)
(*                                                                         *)
(* _save_cache_async and _load_cache_async hand save_cache and load_cache  *)
(* to the threads of the default executor (embed.py:156-165), so their     *)
(* file operations interleave.  Each thread is at a line of its function.  *)
(***************************************************************************)
MaxCacheThreads == 3

\* the one key all threads use
CacheKey == HashOf(Hello, SmallModel)

SaveThread(embedding) ==
    [fn |-> "save_cache", at |-> "open", embedding |-> embedding, ino |-> 0,
     next |-> 1, result |-> None, raised |-> "none"]

LoadThread ==
    [fn |-> "load_cache", at |-> "exists", embedding |-> None, ino |-> 0,
     next |-> 1, result |-> None, raised |-> "none"]

CacheThreads == {SaveThread(e) : e \in Embeddings} \cup {LoadThread}

InitCache ==
    /\ pc = "threads"
    /\ \E c \in InitialCaches :
          /\ c.files \in {<<>>, <<JsonDump(StoredEmbedding)>>}
          /\ cache_dir = c.dir
          /\ inodes = c.files
    /\ \E n \in 1..MaxCacheThreads : tasks \in [1..n -> CacheThreads]
    /\ provider = <<>>
    /\ permits = 0
    /\ PipelineIdle
    /\ RunnerIdle

\* embed.py:96: open(tmp, 'w')
SaveOpen(i) ==
    /\ tasks[i].fn = "save_cache"
    /\ tasks[i].at = "open"
    /\ LET opened == OpenForWrite(cache_dir, inodes, TmpPath(CacheKey))
       IN  /\ cache_dir' = opened.dir
           /\ inodes' = opened.files
           /\ tasks' = [tasks EXCEPT ![i].ino = opened.ino, ![i].at = "write"]
    /\ UNCHANGED <<pc, pipelineVars, runnerVars, permits, provider>>

\* embed.py:97: the next block of the text reaches the file
SaveWrite(i) ==
    /\ tasks[i].fn = "save_cache"
    /\ tasks[i].at = "write"
    /\ LET t == tasks[i]
           last == t.next = Len(t.embedding)
       IN  /\ inodes' = WriteBlock(inodes, t.ino, t.next, JsonDump(t.embedding)[t.next])
           /\ tasks' = [tasks EXCEPT ![i].next = t.next + 1,
                                     ![i].at = IF last THEN "replace" ELSE "write"]
    /\ UNCHANGED <<pc, pipelineVars, runnerVars, cache_dir, permits, provider>>

\* embed.py:98: os.replace(tmp, cache_file), which raises when tmp is gone
SaveReplace(i) ==
    /\ tasks[i].fn = "save_cache"
    /\ tasks[i].at = "replace"
    /\ IF TmpPath(CacheKey) \in DOMAIN cache_dir
       THEN /\ cache_dir' = Bind(Unbind(cache_dir, TmpPath(CacheKey)),
                                 CachePath(CacheKey), cache_dir[TmpPath(CacheKey)])
            /\ tasks' = [tasks EXCEPT ![i].at = "done"]
       ELSE /\ tasks' = [tasks EXCEPT ![i].at = "done",
                                      ![i].raised = "FileNotFoundError"]
            /\ UNCHANGED cache_dir
    /\ UNCHANGED <<pc, pipelineVars, runnerVars, inodes, permits, provider>>

\* embed.py:83: os.path.exists(cache_file)
LoadExists(i) ==
    /\ tasks[i].fn = "load_cache"
    /\ tasks[i].at = "exists"
    /\ tasks' = [tasks EXCEPT ![i].at = IF CachePath(CacheKey) \in DOMAIN cache_dir
                                        THEN "open" ELSE "done"]
    /\ UNCHANGED <<pc, pipelineVars, runnerVars, cache_dir, inodes, permits, provider>>

\* embed.py:84: open(cache_file, 'r'); a cache file is replaced, never removed
LoadOpen(i) ==
    /\ tasks[i].fn = "load_cache"
    /\ tasks[i].at = "open"
    /\ tasks' = [tasks EXCEPT ![i].ino = cache_dir[CachePath(CacheKey)],
                              ![i].at = "read"]
    /\ UNCHANGED <<pc, pipelineVars, runnerVars, cache_dir, inodes, permits, provider>>

\* embed.py:85-89: json.load(f), None when it raises
LoadRead(i) ==
    /\ tasks[i].fn = "load_cache"
    /\ tasks[i].at = "read"
    /\ \E v \in JsonLoad(inodes[tasks[i].ino]) :
          tasks' = [tasks EXCEPT ![i].result = v, ![i].at = "done"]
    /\ UNCHANGED <<pc, pipelineVars, runnerVars, cache_dir, inodes, permits, provider>>

NextCache ==
    \E i \in 1..Len(tasks) :
        \/ SaveOpen(i)
        \/ SaveWrite(i)
        \/ SaveReplace(i)
        \/ LoadExists(i)
        \/ LoadOpen(i)
        \/ LoadRead(i)

SpecCache == InitCache /\ [][NextCache]_vars

\* the embeddings given to save_cache for the key, now or before
PassedIn ==
    {tasks[i].embedding : i \in {j \in 1..Len(tasks) : tasks[j].fn = "save_cache"}}
    \cup {StoredEmbedding}

\* C19: save_cache is atomic for every concurrent use of a key: however
\* save_cache and load_cache calls interleave, two save_cache calls at once
\* included, load_cache returns None or one whole embedding that a writer
\* passed in, and no save_cache call fails because of another writer.
C19_AtomicSave ==
    \A i \in 1..Len(tasks) :
        /\ (tasks[i].fn = "load_cache" /\ tasks[i].at = "done") =>
              (tasks[i].result = None \/ tasks[i].result \in PassedIn)
        /\ tasks[i].fn = "save_cache" => tasks[i].raised = "none"

(***************************************************************************)
(* The semaphore of the async embedding calls (SpecSemaphore)              *)
(* One event loop runs the coroutines; a step is the code between awaits.  *)
(***************************************************************************)

\* embed.py:56: getattr(config, 'EMBED_CONCURRENCY', 8), as configured here
EmbedConcurrency == 1

\* coroutines running async_embed_text / async_embed_texts at once
MaxEmbedTasks == 2

\* embed.py:168: stop_after_attempt(3)
MaxAttempts == 3

\* batches of uncached texts of one async_embed_texts call (embed.py:257, 285)
BatchCounts == {0, 1}

\* what ends _fetch_embeddings_aiohttp with an exception (embed.py:175-176;
\* a cancellation is not retried)
FetchErrors == {"ClientResponseError", "CancelledError"}

\* the provider requests of one call: none on a cache hit (embed.py:186-187,
\* 280); async_embed_texts embeds every uncached batch at 282 and again at 285
RequestCounts(fn) ==
    IF fn = "async_embed_text" THEN {0, 1}
    ELSE {2 * b : b \in BatchCounts}

AsyncCall(fn) ==
    [fn |-> fn, at |-> "start", left |-> 0, attempt |-> 0, waited |-> FALSE,
     raised |-> "none"]

InitSemaphore ==
    /\ pc = "loop"
    /\ PipelineIdle
    /\ RunnerIdle
    /\ cache_dir = <<>>
    /\ inodes = <<>>
    /\ provider = <<>>
    /\ permits = EmbedConcurrency
    /\ tasks \in SeqsUpTo({AsyncCall(fn) : fn \in {"async_embed_text",
                                                    "async_embed_texts"}},
                          MaxEmbedTasks)

\* embed.py:183-197 and 240-282: the cache lookups, before any request
SemEnter(i) ==
    /\ tasks[i].at = "start"
    /\ \E n \in RequestCounts(tasks[i].fn) :
          tasks' = [tasks EXCEPT ![i].left = n,
                                 ![i].at = IF n = 0 THEN "done" ELSE "acquire"]
    /\ UNCHANGED <<pc, pipelineVars, runnerVars, cache_dir, inodes, permits, provider>>

\* embed.py:200, 259, 288: await _SEMAPHORE.acquire(): a permit is taken and
\* the request is sent, or the call waits until a permit is given back
SemAcquire(i) ==
    /\ tasks[i].at = "acquire"
    /\ IF permits > 0
       THEN /\ permits' = permits - 1
            /\ tasks' = [tasks EXCEPT ![i].at = "fetch", ![i].attempt = 1]
       ELSE /\ tasks' = [tasks EXCEPT ![i].at = "waiting", ![i].waited = TRUE]
            /\ UNCHANGED permits
    /\ UNCHANGED <<pc, pipelineVars, runnerVars, cache_dir, inodes, provider>>

\* embed.py:200, 259, 288: a waiting call is woken by a release
SemWake(i) ==
    /\ tasks[i].at = "waiting"
    /\ permits > 0
    /\ permits' = permits - 1
    /\ tasks' = [tasks EXCEPT ![i].at = "fetch", ![i].attempt = 1]
    /\ UNCHANGED <<pc, pipelineVars, runnerVars, cache_dir, inodes, provider>>

\* embed.py:168: an attempt raised and tenacity waits before the next one
SemFetchFailed(i) ==
    /\ tasks[i].at = "fetch"
    /\ tasks[i].attempt < MaxAttempts
    /\ tasks' = [tasks EXCEPT ![i].at = "backoff"]
    /\ UNCHANGED <<pc, pipelineVars, runnerVars, cache_dir, inodes, permits, provider>>

\* embed.py:168: the wait is over, the request is sent again
SemFetchAgain(i) ==
    /\ tasks[i].at = "backoff"
    /\ tasks' = [tasks EXCEPT ![i].at = "fetch", ![i].attempt = @ + 1]
    /\ UNCHANGED <<pc, pipelineVars, runnerVars, cache_dir, inodes, permits, provider>>

\* the try block without its finally: the permit is kept when the request raises
SemFetchEnd_no_finally(i) ==
    /\ tasks[i].at \in {"fetch", "backoff"}
    /\ \/ /\ tasks[i].at = "fetch"
          /\ permits' = permits + 1
          /\ tasks' = [tasks EXCEPT ![i].left = @ - 1,
                                    ![i].attempt = 0,
                                    ![i].at = IF tasks[i].left > 1
                                              THEN "acquire" ELSE "done"]
       \/ /\ UNCHANGED permits
          /\ \E e \in FetchErrors :
                /\ tasks[i].at = "backoff" => e = "CancelledError"
                /\ tasks' = [tasks EXCEPT ![i].raised = e, ![i].attempt = 0,
                                          ![i].at = "raised"]
    /\ UNCHANGED <<pc, pipelineVars, runnerVars, cache_dir, inodes, provider>>

\* embed.py:201-204, 260-263, 289-292: the request returns or raises (while
\* tenacity waits, only a cancellation raises), and finally: _SEMAPHORE.release()
SemFetchEnd(i) ==
    /\ tasks[i].at \in {"fetch", "backoff"}
    /\ permits' = permits + 1
    /\ \/ /\ tasks[i].at = "fetch"
          /\ tasks' = [tasks EXCEPT ![i].left = @ - 1,
                                    ![i].attempt = 0,
                                    ![i].at = IF tasks[i].left > 1
                                              THEN "acquire" ELSE "done"]
       \/ \E e \in FetchErrors :
             /\ tasks[i].at = "backoff" => e = "CancelledError"
             /\ tasks' = [tasks EXCEPT ![i].raised = e, ![i].attempt = 0,
                                       ![i].at = "raised"]
    /\ UNCHANGED <<pc, pipelineVars, runnerVars, cache_dir, inodes, provider>>

NextSemaphore ==
    \E i \in 1..Len(tasks) :
        \/ SemEnter(i)
        \/ SemAcquire(i)
        \/ SemWake(i)
        \/ SemFetchFailed(i)
        \/ SemFetchAgain(i)
        \/ SemFetchEnd(i)

SpecSemaphore == InitSemaphore /\ [][NextSemaphore]_vars

\* the calls whose request is at the provider
InFlight == {i \in 1..Len(tasks) : tasks[i].at = "fetch"}

\* the calls between acquire and release
Holders == {i \in 1..Len(tasks) : tasks[i].at \in {"fetch", "backoff"}}

\* the calls that returned or raised
AllEnded == \A i \in 1..Len(tasks) : tasks[i].at \in {"done", "raised"}

\* C20: at most EMBED_CONCURRENCY requests of async_embed_text and
\* async_embed_texts are in flight at any moment; every permit taken is given
\* back whether the request returns or raises, so once the calls have ended
\* the semaphore holds all its permits, and a call that waits for a permit is
\* waiting for a call that still holds one.
C20_PermitsBounded ==
    /\ Cardinality(InFlight) <= EmbedConcurrency
    /\ permits = EmbedConcurrency - Cardinality(Holders)
    /\ AllEnded => permits = EmbedConcurrency
    /\ \A i \in 1..Len(tasks) :
          (tasks[i].at = "waiting" /\ permits = 0) => Holders # {}

\* one call raised, another had to wait for a permit and returned after its
\* requests, and every call has ended
C20_Witness ==
    /\ AllEnded
    /\ \E i \in 1..Len(tasks) : tasks[i].at = "raised"
    /\ \E i \in 1..Len(tasks) :
          /\ tasks[i].fn = "async_embed_texts"
          /\ tasks[i].at = "done"
          /\ tasks[i].left = 0
          /\ tasks[i].waited
    /\ permits = EmbedConcurrency

(***************************************************************************)
(* The background runner (SpecRunner)                                      *)
(* Caller threads run the functions of async_runner.py and                 *)
(* async_graph.submit_fetch_graph; every thread made by                    *)
(* start_background_loop runs _start_loop. A step is one statement.        *)
(***************************************************************************)

\* calls into the runner that are made, one after another or at once
MaxRunnerCalls == 2

RunnerFunctions ==
    {"submit_sync", "submit_and_wait", "create_driver", "stop_background_loop",
     "submit_fetch_graph"}

\* a call of fn: submit_fetch_graph begins with create_driver()
\* (async_graph.py:50)
RunnerCall(fn) ==
    [fn |-> fn,
     call |-> IF fn = "submit_fetch_graph" THEN "create_driver" ELSE fn,
     at |-> "check", raised |-> "none", handed |-> <<>>]

\* async_runner.py:33: a thread object for _start_loop, not started yet
NewThread == [at |-> "created", pending |-> <<>>, ran |-> {}]

\* the callback of async_runner.py:43 in the loop's queue
StopCallback == [by |-> 0, no |-> 0]

InitRunner ==
    /\ pc = "threads"
    /\ PipelineIdle
    /\ cache_dir = <<>>
    /\ inodes = <<>>
    /\ permits = 0
    /\ provider = <<>>
    /\ _loop = NoLoop
    /\ _thread = NoThread
    /\ _started = FALSE
    /\ loops = <<>>
    /\ ENABLE_ASYNC_RUNNER \in BOOLEAN
    /\ \E calls \in SeqsUpTo(RunnerFunctions, MaxRunnerCalls) :
          tasks = [i \in 1..Len(calls) |-> RunnerCall(calls[i])]

\* the function returns; after create_driver submit_fetch_graph goes on with
\* submit_and_wait (async_graph.py:56)
Returns(t) ==
    IF t.fn = "submit_fetch_graph" /\ t.call = "create_driver"
    THEN [t EXCEPT !.call = "submit_and_wait", !.at = "check"]
    ELSE [t EXCEPT !.at = "done"]

\* the function raises e; submit_fetch_graph catches what create_driver
\* raises and goes on with submit_and_wait (async_graph.py:51-53)
Raises(t, e) ==
    IF t.fn = "submit_fetch_graph" /\ t.call = "create_driver"
    THEN [t EXCEPT !.call = "submit_and_wait", !.at = "check"]
    ELSE [t EXCEPT !.at = "raised", !.raised = e]

\* async_runner.py:56-59, 65-68, 84-85: if not _started
RunnerCheck(i) ==
    /\ tasks[i].call \in {"submit_sync", "submit_and_wait", "create_driver"}
    /\ tasks[i].at = "check"
    /\ tasks' = [tasks EXCEPT ![i] =
          IF _started THEN [@ EXCEPT !.at = "hand"]
          ELSE IF @.call # "create_driver" /\ ~ENABLE_ASYNC_RUNNER
               THEN Raises(@, "RuntimeError")
               ELSE [@ EXCEPT !.at = "started?"]]
    /\ UNCHANGED <<pc, pipelineVars, cache_dir, inodes, permits, provider,
                   runnerVars>>

\* async_runner.py:31-32: start_background_loop returns when _started
StartCheck(i) ==
    /\ tasks[i].at = "started?"
    /\ tasks' = [tasks EXCEPT ![i].at = IF _started THEN "hand" ELSE "create"]
    /\ UNCHANGED <<pc, pipelineVars, cache_dir, inodes, permits, provider,
                   runnerVars>>

\* async_runner.py:33: _thread = threading.Thread(target=_start_loop, ...)
StartCreate(i) ==
    /\ tasks[i].at = "create"
    /\ loops' = Append(loops, NewThread)
    /\ _thread' = Len(loops) + 1
    /\ tasks' = [tasks EXCEPT ![i].at = "start"]
    /\ UNCHANGED <<pc, pipelineVars, cache_dir, inodes, permits, provider,
                   _loop, _started,
                   ENABLE_ASYNC_RUNNER>>

\* async_runner.py:34: _thread.start(), on the thread the global names now
StartThread(i) ==
    /\ tasks[i].at = "start"
    /\ IF _thread = NoThread
       THEN /\ tasks' = [tasks EXCEPT ![i] = Raises(@, "AttributeError")]
            /\ UNCHANGED loops
       ELSE IF loops[_thread].at # "created"
       THEN /\ tasks' = [tasks EXCEPT ![i] = Raises(@, "RuntimeError")]
            /\ UNCHANGED loops
       ELSE /\ loops' = [loops EXCEPT ![_thread].at = "new"]
            /\ tasks' = [tasks EXCEPT ![i].at = "flag"]
    /\ UNCHANGED <<pc, pipelineVars, cache_dir, inodes, permits, provider,
                   _loop, _thread,
                   _started, ENABLE_ASYNC_RUNNER>>

\* async_runner.py:35: _started = True
StartFlag(i) ==
    /\ tasks[i].at = "flag"
    /\ _started' = TRUE
    /\ tasks' = [tasks EXCEPT ![i].at = "hand"]
    /\ UNCHANGED <<pc, pipelineVars, cache_dir, inodes, permits, provider,
                   _loop, _thread, loops,
                   ENABLE_ASYNC_RUNNER>>

\* async_runner.py:60, 69, 89-91: asyncio.run_coroutine_threadsafe(coro, _loop)
\* calls _loop.call_soon_threadsafe, which None does not have
HandOver(i) ==
    /\ tasks[i].at = "hand"
    /\ LET given == [loop |-> _loop, thread |-> _thread]
           coro == [by |-> i, no |-> Len(tasks[i].handed) + 1]
       IN  IF _loop = NoLoop
           THEN /\ tasks' = [tasks EXCEPT ![i] =
                      Raises([@ EXCEPT !.handed = Append(@, given)],
                             "AttributeError")]
                /\ UNCHANGED loops
           ELSE /\ loops' = [loops EXCEPT ![_loop].pending = Append(@, coro)]
                /\ tasks' = [tasks EXCEPT ![i] =
                      IF @.call = "submit_sync"
                      THEN Returns([@ EXCEPT !.handed = Append(@, given)])
                      ELSE [@ EXCEPT !.handed = Append(@, given), !.at = "wait"]]
    /\ UNCHANGED <<pc, pipelineVars, cache_dir, inodes, permits, provider,
                   _loop, _thread,
                   _started, ENABLE_ASYNC_RUNNER>>

\* async_runner.py:70, 92: fut.result() returns once the loop ran the coroutine
WaitResult(i) ==
    /\ tasks[i].at = "wait"
    /\ [by |-> i, no |-> Len(tasks[i].handed)]
          \in loops[tasks[i].handed[Len(tasks[i].handed)].loop].ran
    /\ tasks' = [tasks EXCEPT ![i] = Returns(@)]
    /\ UNCHANGED <<pc, pipelineVars, cache_dir, inodes, permits, provider,
                   runnerVars>>

\* async_runner.py:40-41: if not _started: return
StopCheck(i) ==
    /\ tasks[i].call = "stop_background_loop"
    /\ tasks[i].at = "check"
    /\ tasks' = [tasks EXCEPT ![i].at = IF _started THEN "stop" ELSE "done"]
    /\ UNCHANGED <<pc, pipelineVars, cache_dir, inodes, permits, provider,
                   runnerVars>>

\* async_runner.py:42-43: _loop.call_soon_threadsafe(_loop.stop)
StopLoop(i) ==
    /\ tasks[i].at = "stop"
    /\ loops' = IF _loop = NoLoop THEN loops
                ELSE [loops EXCEPT ![_loop].pending = Append(@, StopCallback)]
    /\ tasks' = [tasks EXCEPT ![i].at = "join"]
    /\ UNCHANGED <<pc, pipelineVars, cache_dir, inodes, permits, provider,
                   _loop, _thread,
                   _started, ENABLE_ASYNC_RUNNER>>

\* async_runner.py:44-45: _thread.join(timeout=1.0) returns when the thread
\* has ended or after a second; a thread not started cannot be joined
StopJoin(i) ==
    /\ tasks[i].at = "join"
    /\ tasks' = [tasks EXCEPT ![i] =
          IF _thread # NoThread /\ loops[_thread].at = "created"
          THEN Raises(@, "RuntimeError")
          ELSE [@ EXCEPT !.at = "clear"]]
    /\ UNCHANGED <<pc, pipelineVars, cache_dir, inodes, permits, provider,
                   runnerVars>>

\* async_runner.py:46-48
StopClear(i) ==
    /\ tasks[i].at = "clear"
    /\ _loop' = NoLoop
    /\ _thread' = NoThread
    /\ _started' = FALSE
    /\ tasks' = [tasks EXCEPT ![i].at = "done"]
    /\ UNCHANGED <<pc, pipelineVars, cache_dir, inodes, permits, provider,
                   loops,
                   ENABLE_ASYNC_RUNNER>>

\* async_runner.py:23-25: the new thread makes its loop and binds _loop to it
LoopCreate(k) ==
    /\ loops[k].at = "new"
    /\ _loop' = k
    /\ loops' = [loops EXCEPT ![k].at = "assigned"]
    /\ UNCHANGED <<pc, pipelineVars, embedVars, _thread, _started,
                   ENABLE_ASYNC_RUNNER>>

\* async_runner.py:26: _loop.run_forever() begins
LoopRunForever(k) ==
    /\ loops[k].at = "assigned"
    /\ loops' = [loops EXCEPT ![k].at = "running"]
    /\ UNCHANGED <<pc, pipelineVars, embedVars, _loop, _thread, _started,
                   ENABLE_ASYNC_RUNNER>>

\* async_runner.py:26: the running loop takes what was handed to it in order:
\* it runs a coroutine, or stops and lets the thread end
LoopRunOnce(k) ==
    /\ loops[k].at = "running"
    /\ Len(loops[k].pending) > 0
    /\ loops' = [loops EXCEPT ![k] =
          IF Head(@.pending) = StopCallback
          THEN [@ EXCEPT !.at = "stopped", !.pending = Tail(@)]
          ELSE [@ EXCEPT !.ran = @ \cup {Head(loops[k].pending)},
                         !.pending = Tail(@)]]
    /\ UNCHANGED <<pc, pipelineVars, embedVars, _loop, _thread, _started,
                   ENABLE_ASYNC_RUNNER>>

NextRunner ==
    \/ \E i \in 1..Len(tasks) :
          \/ RunnerCheck(i)
          \/ StartCheck(i)
          \/ StartCreate(i)
          \/ StartThread(i)
          \/ StartFlag(i)
          \/ HandOver(i)
          \/ WaitResult(i)
          \/ StopCheck(i)
          \/ StopLoop(i)
          \/ StopJoin(i)
          \/ StopClear(i)
    \/ \E k \in 1..Len(loops) :
          \/ LoopCreate(k)
          \/ LoopRunForever(k)
          \/ LoopRunOnce(k)

SpecRunner == InitRunner /\ [][NextRunner]_vars

\* C21: whenever submit_sync, submit_and_wait or create_driver hands a
\* coroutine to the background runner, _loop is not None and is the loop of
\* the runner thread: for the first call, for a call after
\* stop_background_loop and for calls that race with the start.
C21_LoopExistsAtHandOver ==
    \A i \in 1..Len(tasks) :
        \A n \in 1..Len(tasks[i].handed) :
            /\ tasks[i].handed[n].loop # NoLoop
            /\ tasks[i].handed[n].loop = tasks[i].handed[n].thread

\* C22: with ENABLE_ASYNC_RUNNER false the runner is never started: while it
\* is not started submit_sync and submit_and_wait raise RuntimeError and start
\* no thread, and no calls of submit_sync, submit_and_wait, create_driver and
\* submit_fetch_graph leave the runner started or run a coroutine on it.
C22_DisabledNeverStarts ==
    ~ENABLE_ASYNC_RUNNER =>
        /\ ~_started
        /\ loops = <<>>
        /\ \A i \in 1..Len(tasks) : tasks[i].handed = <<>>

(***************************************************************************)
(* One call of embed.async_embed_texts (SpecEmbedTexts)                    *)
(***************************************************************************)

\* the longest list of texts of a call
MaxTexts == 2

BatchSizes == {1, 2}

\* the embedding the provider computes for a text
EmbeddingOf(text) == IF text = Hello THEN <<1, 2>> ELSE <<3, 4>>

\* embed.py:223-234: the call with its locals
TextsCall(texts, model, batch_size, use_cache) ==
    [fn |-> "async_embed_texts", texts |-> texts, model |-> model,
     batch_size |-> batch_size, use_cache |-> use_cache, at |-> "load",
     results |-> [i \in 1..Len(texts) |-> None],
     uncached_indices |-> <<>>, start |-> 0, saves |-> <<>>,
     result |-> None, raised |-> "none"]

InitEmbedTexts ==
    /\ pc = "texts"
    /\ PipelineIdle
    /\ RunnerIdle
    /\ \E c \in InitialCaches : cache_dir = c.dir /\ inodes = c.files
    /\ permits = EmbedConcurrency
    /\ provider = <<>>
    /\ \E texts \in SeqsUpTo(EmbedTexts, MaxTexts), batch_size \in BatchSizes,
          use_cache \in BOOLEAN :
          tasks = <<TextsCall(texts, SmallModel, batch_size, use_cache)>>

\* the indices in 1..n, in order, whose loaded value is None
RECURSIVE Unloaded(_, _)
Unloaded(loaded, n) ==
    IF n = 0 THEN <<>>
    ELSE IF loaded[n] = None THEN Append(Unloaded(loaded, n - 1), n)
         ELSE Unloaded(loaded, n - 1)

\* embed.py:229-253, 279: with use_cache every text is looked up and a value
\* found is the result; the other texts are the uncached ones
TextsLoad ==
    /\ tasks[1].at = "load"
    /\ LET t == tasks[1]
           n == Len(t.texts)
       IN  \E loaded \in [1..n -> UNION {load_cache(cache_dir, inodes,
                                            HashOf(t.texts[i], t.model)) :
                                                i \in 1..n}] :
              /\ \A i \in 1..n :
                    loaded[i] \in load_cache(cache_dir, inodes,
                                             HashOf(t.texts[i], t.model))
              /\ LET found == [i \in 1..n |-> IF t.use_cache THEN loaded[i] ELSE None]
                     uncached == Unloaded(found, n)
                 IN  tasks' = [tasks EXCEPT
                        ![1].results = found,
                        ![1].uncached_indices = uncached,
                        ![1].at = IF uncached = <<>> THEN "return" ELSE "first"]
    /\ UNCHANGED <<pc, pipelineVars, runnerVars, cache_dir, inodes, permits,
                   provider>>

\* the indices of the batch that begins after start
BatchIndices(t) ==
    SubSeq(t.uncached_indices, t.start + 1,
           Min(t.start + t.batch_size, Len(t.uncached_indices)))

\* the results with the embeddings of the batch filled in (embed.py:266-268)
Filled(t) ==
    [i \in 1..Len(t.results) |->
        IF \E k \in 1..Len(BatchIndices(t)) : BatchIndices(t)[k] = i
        THEN EmbeddingOf(t.texts[i]) ELSE t.results[i]]

\* the cache writes the batch schedules (embed.py:269-272)
BatchSaves(t) ==
    IF t.use_cache
    THEN [k \in 1..Len(BatchIndices(t)) |->
            [hash_key |-> HashOf(t.texts[BatchIndices(t)[k]], t.model),
             embedding |-> EmbeddingOf(t.texts[BatchIndices(t)[k]])]]
    ELSE <<>>

\* one turn of a loop over the batches: a permit is taken, the batch is sent
\* and the permit is given back; the embeddings become results and their
\* cache writes are scheduled, or the request raises. after is where the
\* call goes on when the loop is over
FetchBatch(t, after, ok) ==
    IF ~ok THEN [t EXCEPT !.at = "raised", !.raised = "ClientResponseError"]
    ELSE [t EXCEPT !.results = Filled(t),
                   !.saves = @ \o BatchSaves(t),
                   !.start = IF t.start + t.batch_size >= Len(t.uncached_indices)
                             THEN 0 ELSE t.start + t.batch_size,
                   !.at = IF t.start + t.batch_size >= Len(t.uncached_indices)
                          THEN after ELSE t.at]

\* the request of the batch, as the provider receives it
BatchRequest(t) ==
    [model |-> t.model,
     input |-> [k \in 1..Len(BatchIndices(t)) |-> t.texts[BatchIndices(t)[k]]],
     indices |-> {BatchIndices(t)[k] : k \in 1..Len(BatchIndices(t))}]

\* embed.py:257-277, awaited at 281-282: _embed_batches_and_cache
EmbedBatchesAndCache ==
    /\ tasks[1].at = "first"
    /\ provider' = Append(provider, BatchRequest(tasks[1]))
    /\ \E ok \in BOOLEAN :
          tasks' = [tasks EXCEPT ![1] = FetchBatch(@, "second", ok)]
    /\ UNCHANGED <<pc, pipelineVars, runnerVars, cache_dir, inodes, permits>>

\* embed.py:285-308: the loop over the same batches after it
EmbedBatchesAgain ==
    /\ tasks[1].at = "second"
    /\ provider' = Append(provider, BatchRequest(tasks[1]))
    /\ \E ok \in BOOLEAN :
          tasks' = [tasks EXCEPT ![1] = FetchBatch(@, "return", ok)]
    /\ UNCHANGED <<pc, pipelineVars, runnerVars, cache_dir, inodes, permits>>

\* embed.py:271, 302: a scheduled _save_cache_async runs
TextsSave ==
    /\ tasks[1].saves # <<>>
    /\ LET w == Head(tasks[1].saves)
           saved == save_cache(cache_dir, inodes, w.hash_key, w.embedding)
       IN  /\ cache_dir' = saved.dir
           /\ inodes' = saved.files
    /\ tasks' = [tasks EXCEPT ![1].saves = Tail(@)]
    /\ UNCHANGED <<pc, pipelineVars, runnerVars, permits, provider>>

\* embed.py:311: return list(results)
TextsReturn ==
    /\ tasks[1].at = "return"
    /\ tasks' = [tasks EXCEPT ![1].result = tasks[1].results, ![1].at = "done"]
    /\ UNCHANGED <<pc, pipelineVars, runnerVars, cache_dir, inodes, permits,
                   provider>>

NextEmbedTexts ==
    \/ TextsLoad
    \/ EmbedBatchesAndCache
    \/ EmbedBatchesAgain
    \/ TextsSave
    \/ TextsReturn

SpecEmbedTexts == InitEmbedTexts /\ [][NextEmbedTexts]_vars

\* the requests that held the text at index i
SentCount(i) ==
    Cardinality({n \in 1..Len(provider) : i \in provider[n].indices})

\* the call found no cache entry for the text at index i
WasUncached(i) ==
    \E k \in 1..Len(tasks[1].uncached_indices) : tasks[1].uncached_indices[k] = i

\* C23: when a call of async_embed_texts has returned, every text without a
\* cache entry was sent to the provider exactly once, in one request per batch
\* of at most batch_size uncached texts, every text with a cache entry was
\* never sent, and result[i] is the embedding of texts[i].
C23_EachTextSentOnce ==
    tasks[1].at = "done" =>
        /\ \A i \in 1..Len(tasks[1].texts) :
              /\ SentCount(i) = IF WasUncached(i) THEN 1 ELSE 0
              /\ tasks[1].result[i] \in {EmbeddingOf(tasks[1].texts[i]),
                                         StoredEmbedding}
        /\ \A n \in 1..Len(provider) :
              Len(provider[n].input) <= tasks[1].batch_size

(***************************************************************************)
(* The cache keys of two requests (SpecKey)                                *)
(***************************************************************************)

\* texts with and without a colon
KeyTexts ==
    {<<>>, <<"t">>, <<":", "t">>, <<"b", ":", "t">>, <<"m", ":", "t">>}

\* model names with and without a colon, and no model
KeyModels == {None, <<"m">>, <<"m", ":">>, <<"m", ":", "b">>}

KeyCall(text, model) ==
    [fn |-> "get_text_hash", text |-> text, model |-> model, key |-> None]

InitKey ==
    /\ pc = "key1"
    /\ PipelineIdle
    /\ RunnerIdle
    /\ cache_dir = <<>>
    /\ inodes = <<>>
    /\ permits = 0
    /\ provider = <<>>
    /\ \E t1 \in KeyTexts, t2 \in KeyTexts, m1 \in KeyModels, m2 \in KeyModels :
          tasks = <<KeyCall(t1, m1), KeyCall(t2, m2)>>

\* embed.py:72 for the first request
KeyFirst ==
    /\ pc = "key1"
    /\ tasks' = [tasks EXCEPT ![1].key = HashKey(tasks[1].text, tasks[1].model)]
    /\ pc' = "key2"
    /\ UNCHANGED <<pipelineVars, runnerVars, cache_dir, inodes, permits, provider>>

\* embed.py:72 for the second request
KeySecond ==
    /\ pc = "key2"
    /\ tasks' = [tasks EXCEPT ![2].key = HashKey(tasks[2].text, tasks[2].model)]
    /\ pc' = "keyed"
    /\ UNCHANGED <<pipelineVars, runnerVars, cache_dir, inodes, permits, provider>>

NextKey == KeyFirst \/ KeySecond

SpecKey == InitKey /\ [][NextKey]_vars

\* C24: the key string that get_text_hash builds from (text, model) is the
\* same for two requests only if the text and the model are both the same,
\* texts and models that hold ":" and the model None included.
C24_KeySeparatesRequests ==
    (pc = "keyed" /\ tasks[1].key = tasks[2].key) =>
        (tasks[1].text = tasks[2].text /\ tasks[1].model = tasks[2].model)

====
